---- MODULE Spec2Model ----
(***************************************************************************)
(* Model of the /analyze request pipeline of src/app.py: provider          *)
(* selection and fallback, gather_readables, the two-stage ("expert") and  *)
(* single-stage ("classic") report synthesis with the deterministic        *)
(* fallback report, and delivery of the response.                          *)
(*                                                                         *)
(* Text is modelled as a sequence of tokens (one token per lexical unit    *)
(* that the code's regular expressions and json.loads distinguish).        *)
(***************************************************************************)
EXTENDS Integers, Sequences, FiniteSets, TLC

\* ------------------------------------------------------------------------
\* Bounds of the model
\* ------------------------------------------------------------------------
\* largest number of items one provider search returns in the model
MaxItems == 2

\* ------------------------------------------------------------------------
\* Program constants
\* ------------------------------------------------------------------------
\* DoubaoClient.complete: for attempt in range(3)
MaxAttempts == 3
\* MAX_FETCH_HTML values the model configures (the default 8 and a small cap)
MaxFetchDefault == 8

\* bounds of the crawler model: clock advances, failures counted per domain,
\* items one domain's crawl finds
MaxTicks == 2
MaxCount == 3
MaxFound == 1

\* ------------------------------------------------------------------------
\* Token-level text helpers
\* ------------------------------------------------------------------------
\* the token standing for a run of three backticks (a Markdown code fence)
FenceTok == "<fence>"
WsToks == {" ", "\n", "\r"}
StrToks == {"\"references\"", "\"summary\"", "\"a\"", "\"\"", "\"url\"", "\"href\""}
NumToks == {"0", "1"}
LitToks == {"null", "true", "false"}
\* a double quote written on its own: it opens or closes a string whose
\* characters are the tokens in between (used for strings that hold brackets)
Quote == "\""

\* str.strip(): drop leading and trailing whitespace tokens
RECURSIVE LStrip(_)
LStrip(t) == IF t # <<>> /\ Head(t) \in WsToks THEN LStrip(Tail(t)) ELSE t

RECURSIVE RStrip(_)
RStrip(t) ==
    IF t # <<>> /\ t[Len(t)] \in WsToks THEN RStrip(SubSeq(t, 1, Len(t) - 1)) ELSE t

Strip(t) == RStrip(LStrip(t))

\* re.sub(r"^```(?:json)?\r?\n", "", t)
StripFenceOpen(t) ==
    IF t # <<>> /\ Head(t) = FenceTok
    THEN LET a == Tail(t)
             b == IF a # <<>> /\ Head(a) = "json" THEN Tail(a) ELSE a
             c == IF b # <<>> /\ Head(b) = "\r" THEN Tail(b) ELSE b
         IN  IF c # <<>> /\ Head(c) = "\n" THEN Tail(c) ELSE t
    ELSE t

\* re.sub(r"\r?\n```$", "", t)   ($ also matches before one final newline)
StripFenceClose(t) ==
    LET u == IF t # <<>> /\ t[Len(t)] = "\n" /\ Len(t) >= 2 /\ t[Len(t) - 1] = FenceTok
             THEN SubSeq(t, 1, Len(t) - 1) ELSE t
        n == Len(u)
    IN  IF n >= 2 /\ u[n] = FenceTok /\ u[n - 1] = "\n"
        THEN IF n >= 3 /\ u[n - 2] = "\r"
             THEN SubSeq(u, 1, n - 3) \o SubSeq(t, Len(u) + 1, Len(t))
             ELSE SubSeq(u, 1, n - 2) \o SubSeq(t, Len(u) + 1, Len(t))
        ELSE t

\* first index of token x in t, 0 when absent  (re.search(r"\{", t))
RECURSIVE FirstIndexFrom(_, _, _)
FirstIndexFrom(t, x, i) ==
    IF i > Len(t) THEN 0
    ELSE IF t[i] = x THEN i ELSE FirstIndexFrom(t, x, i + 1)

FirstIndex(t, x) == FirstIndexFrom(t, x, 1)

\* last index of token x in t, 0 when absent  (t.rfind("}"))
RECURSIVE LastIndexFrom(_, _, _)
LastIndexFrom(t, x, i) ==
    IF i < 1 THEN 0
    ELSE IF t[i] = x THEN i ELSE LastIndexFrom(t, x, i - 1)

LastIndex(t, x) == LastIndexFrom(t, x, Len(t))

\* ------------------------------------------------------------------------
\* json.loads on token sequences
\* A parse result is [ok, v, next]; values are tagged records.
\* ------------------------------------------------------------------------
RECURSIVE SkipWs(_, _)
SkipWs(t, i) == IF i <= Len(t) /\ t[i] \in WsToks THEN SkipWs(t, i + 1) ELSE i

JFail == [ok |-> FALSE, v |-> [k |-> "none"], next |-> 0]

RECURSIVE ParseValue(_, _)
RECURSIVE ParseMembers(_, _, _)
RECURSIVE ParseElements(_, _, _)

\* members after "{" (or after a ","): STR ":" value, then "," or "}"
ParseMembers(t, i, acc) ==
    LET a == SkipWs(t, i) IN
    IF a > Len(t) \/ t[a] \notin StrToks THEN JFail
    ELSE LET b == SkipWs(t, a + 1) IN
         IF b > Len(t) \/ t[b] # ":" THEN JFail
         ELSE LET r == ParseValue(t, b + 1) IN
              IF ~r.ok THEN JFail
              ELSE LET c == SkipWs(t, r.next)
                       acc2 == Append(acc, <<t[a], r.v>>)
                   IN  IF c > Len(t) THEN JFail
                       ELSE IF t[c] = "}" THEN [ok |-> TRUE, v |-> [k |-> "obj", m |-> acc2], next |-> c + 1]
                       ELSE IF t[c] = "," THEN ParseMembers(t, c + 1, acc2)
                       ELSE JFail

\* elements after "[" (or after a ","): value, then "," or "]"
ParseElements(t, i, acc) ==
    LET r == ParseValue(t, i) IN
    IF ~r.ok THEN JFail
    ELSE LET c == SkipWs(t, r.next)
             acc2 == Append(acc, r.v)
         IN  IF c > Len(t) THEN JFail
             ELSE IF t[c] = "]" THEN [ok |-> TRUE, v |-> [k |-> "arr", e |-> acc2], next |-> c + 1]
             ELSE IF t[c] = "," THEN ParseElements(t, c + 1, acc2)
             ELSE JFail

ParseValue(t, i) ==
    LET a == SkipWs(t, i) IN
    IF a > Len(t) THEN JFail
    ELSE IF t[a] \in StrToks THEN [ok |-> TRUE, v |-> [k |-> "str", s |-> t[a]], next |-> a + 1]
    ELSE IF t[a] = Quote
         THEN LET b == FirstIndexFrom(t, Quote, a + 1) IN
              IF b = 0 THEN JFail
              ELSE [ok |-> TRUE, v |-> [k |-> "qstr", c |-> SubSeq(t, a + 1, b - 1)],
                    next |-> b + 1]
    ELSE IF t[a] \in NumToks THEN [ok |-> TRUE, v |-> [k |-> "num", n |-> t[a]], next |-> a + 1]
    ELSE IF t[a] \in LitToks THEN [ok |-> TRUE, v |-> [k |-> "lit", l |-> t[a]], next |-> a + 1]
    ELSE IF t[a] = "{"
         THEN LET b == SkipWs(t, a + 1) IN
              IF b <= Len(t) /\ t[b] = "}"
              THEN [ok |-> TRUE, v |-> [k |-> "obj", m |-> <<>>], next |-> b + 1]
              ELSE ParseMembers(t, a + 1, <<>>)
    ELSE IF t[a] = "["
         THEN LET b == SkipWs(t, a + 1) IN
              IF b <= Len(t) /\ t[b] = "]"
              THEN [ok |-> TRUE, v |-> [k |-> "arr", e |-> <<>>], next |-> b + 1]
              ELSE ParseElements(t, a + 1, <<>>)
    ELSE JFail

\* json.loads(t): exactly one value, whitespace allowed around it
json_loads(t) ==
    LET r == ParseValue(t, 1) IN
    IF r.ok /\ SkipWs(t, r.next) > Len(t) THEN r ELSE JFail

EmptyDict == [k |-> "obj", m |-> <<>>]

\* dict.get(key): the value of the last member named key, [k |-> "none"] when absent
RECURSIVE DictGetFrom(_, _, _)
DictGetFrom(d, key, i) ==
    IF i < 1 THEN [k |-> "none"]
    ELSE IF d.m[i][1] = key THEN d.m[i][2] ELSE DictGetFrom(d, key, i - 1)

DictGet(d, key) == DictGetFrom(d, key, Len(d.m))

\* variant: presence of the key instead of truthiness of its value
TruthyPresent(v) == v.k # "none"

\* Python truthiness of a parsed JSON value
Truthy(v) ==
    CASE v.k = "obj" -> Len(v.m) > 0
      [] v.k = "arr" -> Len(v.e) > 0
      [] v.k = "str" -> v.s # "\"\""
      [] v.k = "qstr" -> v.c # <<>>
      [] v.k = "num" -> v.n # "0"
      [] v.k = "lit" -> v.l = "true"
      [] OTHER -> FALSE

\* report_service.try_parse_json_object
try_parse_json_object(text) ==
    IF text = <<>> THEN EmptyDict
    ELSE LET t == StripFenceClose(StripFenceOpen(Strip(text)))
             m == FirstIndex(t, "{")
             n == LastIndex(t, "}")
             first == IF m # 0 /\ n # 0 /\ n > m
                      THEN json_loads(SubSeq(t, m, n)) ELSE JFail
             whole == json_loads(t)
         IN  IF first.ok /\ first.v.k = "obj" THEN first.v
             ELSE IF whole.ok /\ whole.v.k = "obj" THEN whole.v
             ELSE EmptyDict

\* ------------------------------------------------------------------------
\* Evidence items and report text
\* ------------------------------------------------------------------------
\* provider kinds: SearchService, LLMSearchService, MCPDDGService,
\* MockSearchService, CrawlerService
Providers == {"ddgs", "llm", "mcp", "mock", "crawler"}

\* the 'source' field of the items a provider's search produces
SourceOf(p) == IF p = "ddgs" THEN "" ELSE "example.com"

\* the n items returned by provider p's search; `by` tags the producing provider
SearchResult(p, n) == [i \in 1..n |-> [href |-> i, source |-> SourceOf(p), by |-> p]]

\* article_text values a fetch can yield: nothing, whitespace only, real text
Texts == {"", " ", "text"}

\* (it.get('article_text') or '').strip()
StripText(x) == IF x = " " THEN "" ELSE x

\* texts the provider's fetch can produce for one item
FetchTexts(p) ==
    CASE p = "crawler" -> {"", "text"}
      [] p = "mock" -> {"text"}
      [] OTHER -> Texts

\* variant: no provider truncates its input
SelectedAll(p, its, m) == its

\* the items a provider's gather_readables works on: items[:self.max_fetch_html]
\* for SearchService, LLMSearchService, MCPDDGService and MockSearchService,
\* every item for CrawlerService
Selected(p, its, max_fetch_html) ==
    IF p = "crawler" THEN its
    ELSE SubSeq(its, 1, IF Len(its) < max_fetch_html THEN Len(its) ELSE max_fetch_html)

\* gather_readables: one enriched item per selected item, in order
Enrich(sel, txt) ==
    [i \in 1..Len(sel) |->
        [href |-> sel[i].href, source |-> sel[i].source, by |-> sel[i].by,
         article_text |-> txt[i]]]

\* variant: article_text counted without strip()
GotTextNoStrip(its) == Cardinality({i \in 1..Len(its) : its[i].article_text # ""})

\* sum(1 for it in items_readable if (it.get('article_text') or '').strip())
GotText(its) == Cardinality({i \in 1..Len(its) : StripText(its[i].article_text) # ""})

\* any([(it.get('article_text') or '').strip() for it in items_readable])
HasEvidence(its) == \E i \in 1..Len(its) : StripText(its[i].article_text) # ""

\* a line of report text
Line(kind, text) == [k |-> kind, text |-> text]

\* sub in content
Contains(c, sub) == \E i \in 1..Len(c) : c[i].text = sub

\* variant: nothing is filtered out
SeqFilterAll(sq, keep) == sq

RECURSIVE SeqFilter(_, _)
SeqFilter(sq, keep) ==
    IF sq = <<>> THEN <<>>
    ELSE IF Head(sq) \in keep THEN <<Head(sq)>> \o SeqFilter(Tail(sq), keep)
    ELSE SeqFilter(Tail(sq), keep)

\* report_service.build_fallback_markdown
build_fallback_markdown(tp, its) ==
    LET t2 == IF tp = "" THEN "report" ELSE tp
        withText == {i \in 1..Len(its) : StripText(its[i].article_text) # ""}
        idx == SeqFilter([i \in 1..Len(its) |-> i], withText)
        dom_text == IF \E i \in 1..Len(its) : its[i].source # ""
                    THEN "source histogram" ELSE "no sources"
    IN  << Line("h1", t2), Line("h2", "executive summary"),
           [k |-> "coverage", text |-> dom_text, n |-> Len(its)],
           Line("h2", "overview"),
           [k |-> "count", text |-> "hits", n |-> Len(its)],
           Line("h2", "key issues") >>
        \o [j \in 1..Len(idx) |->
               [k |-> "issue", text |-> its[idx[j]].article_text, href |-> its[idx[j]].href]]
        \o << Line("h2", "risks"), Line("h2", "stakeholders"),
              Line("h2", "conclusion"),
              Line("li", "keep tracking; generate the expert report when the model service is available"),
              Line("h2", "references") >>
        \o [j \in 1..Len(its) |-> [k |-> "ref", text |-> its[j].source, href |-> its[j].href]]

\* the two failure strings app.analyze (line 226) looks for in the model's answer,
\* rendered in ASCII
NoEvidence1 == "no list of fetched-text evidence was provided"
NoEvidence2 == "no evidence provided"
\* the string the response's fallback field (line 268) looks for, in ASCII
ModelDownNote == "note: the model service is temporarily unavailable"

\* answers of the report LLM (choices[0].message.content) for stage 2 and classic
MarkdownAnswers ==
    { <<>>,
      <<Line("llm", "# report"), Line("llm", "body")>>,
      <<Line("llm", NoEvidence2)>>,
      <<Line("llm", "sorry"), Line("llm", NoEvidence1)>> }

\* answers of the report LLM for stage 1 (token text handed to try_parse_json_object)
RefsObj == <<"{", "\"references\"", ":", "[", "1", "]", "}">>
Stage1Answers ==
    { <<>>,
      <<"no", " ", "json", " ", "here">>,
      RefsObj,
      <<FenceTok, "json", "\n">> \o RefsObj \o <<"\n", FenceTok>>,
      <<"ok", ":", " ">> \o RefsObj \o <<" ", "done">>,
      <<"[">> \o RefsObj \o <<"]">>,
      <<"{", "\"summary\"", ":", "[", "\"a\"", "]", "}">>,
      <<"{", "\"references\"", ":", "[", "]", "}">>,
      <<"{", "\"references\"", ":", "[", "1">> }

\* variant: the stage-1 answer is never checked
Stage1DemotesNever(json_text) == FALSE

\* not data or not isinstance(data, dict) or not data.get('references')
Stage1Demotes(json_text) ==
    LET data == try_parse_json_object(json_text)
    IN  Len(data.m) = 0 \/ ~Truthy(DictGet(data, "\"references\""))

\* variant: only the first failure string is looked for
FinalCheckFirstOnly(c, tp, its) ==
    IF c = <<>> \/ Contains(c, NoEvidence1)
    THEN build_fallback_markdown(tp, its) ELSE c

\* line 226-228: replace an empty or "no evidence" answer by the fallback report
FinalCheck(c, tp, its) ==
    IF c = <<>> \/ Contains(c, NoEvidence1) \/ Contains(c, NoEvidence2)
    THEN build_fallback_markdown(tp, its) ELSE c

\* ------------------------------------------------------------------------
\* State of the process and of the request being handled by app.analyze
\* ------------------------------------------------------------------------
VARIABLES
    env_expert,      \* os.environ['EXPERT_MODE']: "unset", "true" or "false" (process-wide)
    pc,              \* position of the handler: the await it is suspended at
    topic,           \* payload.get("topic") or ""
    provider,        \* os.getenv("SEARCH_PROVIDER", "ddgs").lower()
    max_fetch_html,  \* MAX_FETCH_HTML
    ss,              \* the active provider
    ddgs_fallback,   \* the secondary provider, "None" when not configured
    items,           \* the active item set
    search_empty,    \* len(items) == 0 after the search stage
    items_readable,  \* result of gather_readables
    got_text,        \* number of items with non-blank article_text
    expert_mode,     \* local flag read from the environment after gather
    attempt,         \* DoubaoClient.complete: index of the running attempt
    last_exc,        \* DoubaoClient.complete: last exception caught
    content,         \* the report Markdown
    response,        \* what the handler returned, [status |-> "none"] while running
    search_calls,    \* history: providers whose search was invoked, in order
    search_returns,  \* history: [by, n] for every search that returned a list
    search_raised,   \* history: providers whose search raised
    gather_on,       \* history: provider whose gather_readables was invoked
    gather_raised,   \* history: gather_readables raised
    llm_calls,       \* history: DoubaoClient.complete calls of the synthesis stage
    exc_in,          \* history: synthesis LLM calls that ended in an exception
    stage1_text,     \* history: the stage-1 answer handed to try_parse_json_object
    llm_answer,      \* history: the Markdown answer of stage 2 or of the classic call
    synth_trace      \* history: synthesis states entered, in order

\* state of the crawler provider and of its suppression store
VARIABLES
    now,              \* int(time.time())
    ticks,            \* number of clock advances so far
    suppress_file,    \* the file named by SUPPRESS_FILE
    suppress,         \* self._suppress of the request's CrawlerService
    other_suppress,   \* self._suppress of an overlapping request's CrawlerService
    cpc,              \* position of the request's crawler: none, ready, searching, returned, raised
    blacklist,        \* self.blacklist_domains
    max_total_limit,  \* self.max_total_limit
    task,             \* per trusted domain: state of its _search_one_domain task
    found,            \* per trusted domain: number of items its task returned
    results,          \* what search returned
    unsaved,          \* history: the latest _save_suppress of the request's store failed
    recorded,         \* history: per domain, the _record_* calls of this search
    entry             \* history: per domain, clock and record read at lines 188-189

crawlv == <<now, ticks, suppress_file, suppress, other_suppress, cpc, blacklist,
            max_total_limit, task, found, results, unsaved, recorded, entry>>

\* state of the library routines the pipeline relies on: the enrichment
\* fetches of one gather_readables call, one ranking call, one JSON
\* extraction, the log bus, and one DoubaoClient.complete call
VARIABLES
    gpc,          \* gather_readables: idle, gathering, returned
    g_variant,    \* the provider whose gather_readables runs
    g_n,          \* len(items)
    g_limit,      \* self.max_fetch_html
    fetch,        \* per task of asyncio.gather: created, inflight, done
    g_texts,      \* per task: the article_text its fetch produced
    g_done,       \* history: task indices in completion order
    readables,    \* the list gather_readables returned
    rpc,          \* ranking: idle, input, ranked, reranked
    r_variant,    \* the provider whose ranking runs
    r_cfg,        \* trusted_domains, blacklist_domains, only_trusted, max_results
    r_seed,       \* crawler: the trusted domain being crawled
    r_in,         \* the items handed to the ranking
    r_out,        \* the ranked list
    r_again,      \* the result of ranking r_out once more
    jpc,          \* extraction: idle, input, extracted
    j_text,       \* the model output handed to the extractor
    j_orig,       \* history: the JSON value the text was built around
    j_shape,      \* history: how the text was built
    j_out,        \* what the extractor returned
    queue,        \* LogBus.queue
    clients,      \* LogBus.clients: the subscribers whose queue is in the set
    published,    \* history: the messages handed to publish, in order
    received,     \* history: per subscriber, everything put on its queue
    b_running,    \* the broadcaster task was created (app startup)
    publisher,    \* position of a caller of publish: idle, blocked
    c_pc,         \* DoubaoClient.complete: idle, request, sleep, returned, raised
    c_attempt,    \* attempt
    c_last_exc,   \* last_exc
    c_errors,     \* history: the exception of each failed attempt
    c_slept       \* history: the asyncio.sleep durations, in seconds

\* LLM-driven search (LLMSearchService.search) and the proxy probe of the
\* HTTP clients
VARIABLES
    l_pc,         \* search: idle, chat, responses, done
    l_cfg,        \* the ranking settings of the service
    l_chat,       \* history: what the chat/completions endpoint answered
    l_resp,       \* history: what the responses endpoint answered
    l_steps,      \* history: the sources tried, in order
    l_items,      \* what search returned
    x_pc,         \* a client with a proxy probe: idle, built, done
    x_client,     \* which class builds the client
    x_http_proxy, \* self.http_proxy (HTTP_PROXY of the environment)
    x_probe,      \* history: outcome of the TCP probe of the proxy
    x_kwargs,     \* the keyword arguments of httpx.AsyncClient
    x_route,      \* history: how the request left the process
    x_result      \* history: outcome of the request

llmsv == <<l_pc, l_cfg, l_chat, l_resp, l_steps, l_items>>
proxyv == <<x_pc, x_client, x_http_proxy, x_probe, x_kwargs, x_route, x_result>>
extv == <<llmsv, proxyv>>

fetchv == <<gpc, g_variant, g_n, g_limit, fetch, g_texts, g_done, readables>>
rankv == <<rpc, r_variant, r_cfg, r_seed, r_in, r_out, r_again>>
jsonv == <<jpc, j_text, j_orig, j_shape, j_out>>
busv == <<queue, clients, published, received, b_running, publisher>>
clientv == <<c_pc, c_attempt, c_last_exc, c_errors, c_slept>>
libv == <<fetchv, rankv, jsonv, busv, clientv, extv>>

config == <<topic, provider, max_fetch_html, ddgs_fallback>>
searchv == <<ss, items, search_empty, search_calls, search_returns, search_raised>>
gatherv == <<items_readable, got_text, gather_on, gather_raised>>
llmv == <<attempt, last_exc>>
answers == <<stage1_text, llm_answer>>
vars == <<env_expert, pc, topic, provider, max_fetch_html, ss, ddgs_fallback, items,
          search_empty, items_readable, got_text, expert_mode, attempt, last_exc,
          content, response, search_calls, search_returns, search_raised, gather_on,
          gather_raised, llm_calls, exc_in, stage1_text, llm_answer, synth_trace,
          now, ticks, suppress_file, suppress, other_suppress, cpc, blacklist,
          max_total_limit, task, found, results, unsaved, recorded, entry,
          gpc, g_variant, g_n, g_limit, fetch, g_texts, g_done, readables,
          rpc, r_variant, r_cfg, r_seed, r_in, r_out, r_again,
          jpc, j_text, j_orig, j_shape, j_out,
          queue, clients, published, received, b_running, publisher,
          c_pc, c_attempt, c_last_exc, c_errors, c_slept,
          l_pc, l_cfg, l_chat, l_resp, l_steps, l_items,
          x_pc, x_client, x_http_proxy, x_probe, x_kwargs, x_route, x_result>>

Topics == {"", "X"}
NoResponse == [status |-> "none"]
\* value of the answer histories before any answer arrived
NoAnswer == <<"<no answer>">>
NoMarkdown == <<[k |-> "none", text |-> "<no answer>"]>>

\* the secondary provider app.analyze configures for a primary (lines 70-144)
FallbackFor(prov, crawler_strict) ==
    CASE prov = "llm" -> "ddgs"
      [] prov = "mcp" -> "llm"
      [] prov = "crawler" -> IF crawler_strict THEN "None" ELSE "ddgs"
      [] OTHER -> "None"

\* providers whose search has a failure point outside any try block
SearchCanRaise(p) == p \in {"ddgs", "crawler"}

\* providers whose gather_readables has a failure point outside any try block
GatherCanRaise(p) == p = "crawler"

\* os.getenv("EXPERT_MODE", "true").lower() == "true"
ExpertEnabled(env) == env \in {"unset", "true"}

\* the variables of the request handler
appv == <<env_expert, pc, topic, provider, max_fetch_html, ss, ddgs_fallback, items,
          search_empty, items_readable, got_text, expert_mode, attempt, last_exc,
          content, response, search_calls, search_returns, search_raised, gather_on,
          gather_raised, llm_calls, exc_in, stage1_text, llm_answer, synth_trace>>

\* ------------------------------------------------------------------------
\* CrawlerService: the suppression store
\* ------------------------------------------------------------------------
\* SUPPRESS_THRESHOLD default, SUPPRESS_TTL_HOURS default, seconds per hour
SuppressThreshold == 3
SuppressHours == 24
SecondsPerHour == 3600
SuppressTTL == SuppressHours * SecondsPerHour

\* MAX_TOTAL_LIMIT default
MaxTotalDefault == 30

\* self.trusted_domains, in configuration order
Trusted == <<"a.com", "b.com">>
Domains == {Trusted[i] : i \in 1..Len(Trusted)}

\* the value of self._suppress.get(domain) for a domain without a record
NoRecord == [present |-> FALSE, count |-> 0, suppress_until |-> 0]

\* self._suppress = {}
EmptyStore == [d \in Domains |-> NoRecord]

\* contents of the suppression file: absent, not parsable as a JSON object, or
\* the JSON text of a store
MissingFile == [kind |-> "missing", data |-> EmptyStore]
GarbageFile == [kind |-> "garbage", data |-> EmptyStore]

\* json.dump(self._suppress, f): the keys are strings and the values objects
\* of two integers, which json.load gives back unchanged
JsonFile(store) == [kind |-> "json", data |-> store]

\* _load_suppress, lines 348-357
_load_suppress(f) == IF f.kind = "json" THEN f.data ELSE EmptyStore

\* _save_suppress, lines 359-365: the file after the call and whether the
\* call failed. A failure of open() leaves the file as it was; a failure
\* while writing leaves a truncated file.
SaveOutcomes(f, store) ==
    { [file |-> JsonFile(store), failed |-> FALSE],
      [file |-> f, failed |-> TRUE],
      [file |-> GarbageFile, failed |-> TRUE] }

\* variant: the threshold-th failure does not suppress yet
ReachesThresholdLate(c) == c > SuppressThreshold

\* line 371: rec["count"] >= self.suppress_threshold
ReachesThreshold(c) == c >= SuppressThreshold

\* variant: a failure after an expired suppression starts the count over
RecordFailureRestart(store, d, t) ==
    LET rec == store[d]
        expired == rec.suppress_until # 0 /\ rec.suppress_until <= t
        c == IF expired THEN 1 ELSE rec.count + 1
    IN  [store EXCEPT ![d] =
            [present |-> TRUE, count |-> c,
             suppress_until |-> IF c >= SuppressThreshold THEN t + SuppressTTL
                                ELSE IF expired THEN 0 ELSE rec.suppress_until]]

\* _record_failure, lines 368-373: the store after a failure of domain d at time t
_record_failure(store, d, t) ==
    LET rec == store[d]
        c == rec.count + 1
    IN  [store EXCEPT ![d] =
            [present |-> TRUE, count |-> c,
             suppress_until |-> IF ReachesThreshold(c) THEN t + SuppressTTL
                                ELSE rec.suppress_until]]

\* variant: a success takes one failure off the count
RecordSuccessDecay(store, d) ==
    IF store[d].count > 1
    THEN [store EXCEPT ![d] = [present |-> TRUE, count |-> store[d].count - 1,
                               suppress_until |-> 0]]
    ELSE [store EXCEPT ![d] = NoRecord]

\* _record_success, lines 377-378: self._suppress.pop(domain, None)
_record_success(store, d) == [store EXCEPT ![d] = NoRecord]

\* variant: suppression lasts up to and including suppress_until
IsSuppressedInclusive(rec, t) == rec.present /\ rec.suppress_until >= t

\* line 190: sup and sup.get('suppress_until', 0) > now
IsSuppressed(rec, t) == rec.present /\ rec.suppress_until > t

\* no task created yet; no entry read yet
NoEntry == [t |-> 0, rec |-> NoRecord, read |-> FALSE]

\* the crawler's state before any request used it; the suppression file does not exist
CrawlerIdle ==
    /\ now = 0
    /\ ticks = 0
    /\ suppress = EmptyStore
    /\ other_suppress = [live |-> FALSE, st |-> EmptyStore]
    /\ cpc = "none"
    /\ blacklist = {}
    /\ max_total_limit = MaxTotalDefault
    /\ task = [d \in Domains |-> "none"]
    /\ found = [d \in Domains |-> 0]
    /\ results = <<>>
    /\ unsaved = FALSE
    /\ recorded = [d \in Domains |-> <<>>]
    /\ entry = [d \in Domains |-> NoEntry]

\* no gather_readables call, ranking call, extraction or LLM call is under
\* way, and the log bus is as constructed at import (logger.py line 43)
FetchIdle ==
    /\ gpc = "idle"
    /\ g_variant = "ddgs"
    /\ g_n = 0
    /\ g_limit = 0
    /\ fetch = <<>>
    /\ g_texts = <<>>
    /\ g_done = <<>>
    /\ readables = <<>>

RankIdle ==
    /\ rpc = "idle"
    /\ r_variant = "ddgs"
    /\ r_cfg = [trusted |-> {}, blacklist |-> {}, only_trusted |-> FALSE, max_results |-> 0]
    /\ r_seed = ""
    /\ r_in = <<>>
    /\ r_out = <<>>
    /\ r_again = <<>>

JsonIdle ==
    /\ jpc = "idle"
    /\ j_text = <<>>
    /\ j_orig = [k |-> "none"]
    /\ j_shape = "none"
    /\ j_out = [k |-> "none"]

\* the websocket connections that may subscribe to the log bus
Subscribers == {"ws1", "ws2"}

BusIdle ==
    /\ queue = <<>>
    /\ clients = {}
    /\ published = <<>>
    /\ received = [s \in Subscribers |-> <<>>]
    /\ b_running = FALSE
    /\ publisher = "idle"

ClientIdle ==
    /\ c_pc = "idle"
    /\ c_attempt = 0
    /\ c_last_exc = "None"
    /\ c_errors = <<>>
    /\ c_slept = <<>>

\* no LLM-driven search under way
LlmSearchIdle ==
    /\ l_pc = "idle"
    /\ l_cfg = [trusted |-> {}, blacklist |-> {}, only_trusted |-> FALSE, max_results |-> 1]
    /\ l_chat = [ok |-> FALSE, content |-> <<>>]
    /\ l_resp = [ok |-> FALSE, content |-> <<>>]
    /\ l_steps = <<>>
    /\ l_items = <<>>

\* no client under construction
ProxyIdle ==
    /\ x_pc = "idle"
    /\ x_client = "None"
    /\ x_http_proxy = ""
    /\ x_probe = "None"
    /\ x_kwargs = [trust_env |-> FALSE, proxies |-> "None"]
    /\ x_route = "None"
    /\ x_result = "None"

ExtIdle == LlmSearchIdle /\ ProxyIdle

LibIdle == FetchIdle /\ RankIdle /\ JsonIdle /\ BusIdle /\ ClientIdle /\ ExtIdle

\* the handler before the first request
AppInit ==
    /\ env_expert \in {"unset", "true", "false"}
    /\ pc = "idle"
    /\ topic = ""
    /\ provider = "ddgs"
    /\ max_fetch_html = MaxFetchDefault
    /\ ss = "ddgs"
    /\ ddgs_fallback = "None"
    /\ items = <<>>
    /\ search_empty = FALSE
    /\ items_readable = <<>>
    /\ got_text = 0
    /\ expert_mode = FALSE
    /\ attempt = 0
    /\ last_exc = "None"
    /\ content = <<>>
    /\ response = NoResponse
    /\ search_calls = <<>>
    /\ search_returns = <<>>
    /\ search_raised = {}
    /\ gather_on = "None"
    /\ gather_raised = FALSE
    /\ llm_calls = <<>>
    /\ exc_in = {}
    /\ stage1_text = NoAnswer
    /\ llm_answer = NoMarkdown
    /\ synth_trace = <<>>

Init ==
    /\ AppInit
    /\ suppress_file = MissingFile
    /\ CrawlerIdle
    /\ LibIdle

\* analyze, lines 53-146: a request arrives; read the configuration, build the providers
Receive ==
    /\ pc \in {"idle", "done"}
    /\ \E tp \in Topics :
        /\ topic' = tp
        /\ IF tp = ""
           THEN \* lines 54-56: the handler returns before it reads its settings
                /\ pc' = "done"
                /\ response' = [status |-> 400, error |-> "missing topic"]
                /\ search_calls' = <<>>
                /\ provider' = "ddgs"
                /\ max_fetch_html' = MaxFetchDefault
                /\ ss' = "ddgs"
                /\ ddgs_fallback' = "None"
           ELSE \E prov \in Providers, mf \in {1, MaxFetchDefault} :
                \E strict \in (IF prov = "crawler" THEN BOOLEAN ELSE {FALSE}) :
                /\ pc' = "search"
                /\ response' = NoResponse
                /\ search_calls' = <<prov>>
                /\ provider' = prov
                /\ max_fetch_html' = mf
                /\ ss' = prov
                /\ ddgs_fallback' = FallbackFor(prov, strict)
    /\ items' = <<>>
    /\ search_empty' = FALSE
    /\ items_readable' = <<>>
    /\ got_text' = 0
    /\ expert_mode' = FALSE
    /\ attempt' = 0
    /\ last_exc' = "None"
    /\ content' = <<>>
    /\ search_returns' = <<>>
    /\ search_raised' = {}
    /\ gather_on' = "None"
    /\ gather_raised' = FALSE
    /\ llm_calls' = <<>>
    /\ exc_in' = {}
    /\ stage1_text' = NoAnswer
    /\ llm_answer' = NoMarkdown
    /\ synth_trace' = <<>>
    /\ UNCHANGED <<env_expert, crawlv, libv>>

\* variant: the fallback search runs whatever the primary returned
NeedsSecondaryAnyCount(its) ==
    /\ provider \in {"crawler", "mcp", "llm"}
    /\ ddgs_fallback # "None"

\* lines 150, 155, 160: the primary returned nothing and a secondary is configured
NeedsSecondary(its) ==
    /\ provider \in {"crawler", "mcp", "llm"}
    /\ Len(its) = 0
    /\ ddgs_fallback # "None"

\* variant: the provider is not swapped after the fallback search
AdoptProviderKeep(primary, secondary) == primary

\* lines 153, 158, 163: ss = ddgs_fallback, the active provider after the
\* secondary's search returned
AdoptProvider(primary, secondary) == secondary

\* variant: a search exception ends the request
AfterSearchErrorAbort == "done"

\* lines 164-166: where the handler continues after a search raised
AfterSearchError == "gather"

\* analyze, lines 147-173: the primary provider's search returns or raises
PrimarySearch ==
    /\ pc = "search"
    /\ \/ \E n \in 0..MaxItems :
            LET its == SearchResult(ss, n) IN
            /\ search_returns' = Append(search_returns, [by |-> ss, n |-> n])
            /\ IF NeedsSecondary(its)
               THEN /\ pc' = "search2"
                    /\ search_calls' = Append(search_calls, ddgs_fallback)
                    /\ UNCHANGED <<items, search_empty, search_raised>>
               ELSE /\ pc' = "gather"
                    /\ items' = its
                    /\ search_empty' = (Len(its) = 0)
                    /\ UNCHANGED <<search_calls, search_raised>>
       \/ /\ SearchCanRaise(ss)
          /\ pc' = AfterSearchError
          /\ items' = <<>>
          /\ search_empty' = TRUE
          /\ search_raised' = search_raised \union {ss}
          /\ UNCHANGED <<search_calls, search_returns>>
    /\ UNCHANGED <<env_expert, config, crawlv, libv, ss, gatherv, expert_mode, llmv, content, response,
                   llm_calls, exc_in, answers, synth_trace>>

\* analyze, lines 152-153 / 157-158 / 162-163 and 164-173: the secondary's search
\* returns (its items and it become active) or raises
SecondarySearch ==
    /\ pc = "search2"
    /\ \/ /\ \E n \in 0..MaxItems :
               /\ items' = SearchResult(ddgs_fallback, n)
               /\ search_returns' = Append(search_returns, [by |-> ddgs_fallback, n |-> n])
               /\ search_empty' = (n = 0)
          /\ ss' = AdoptProvider(ss, ddgs_fallback)
          /\ pc' = "gather"
          /\ UNCHANGED search_raised
       \/ /\ SearchCanRaise(ddgs_fallback)
          /\ pc' = AfterSearchError
          /\ items' = <<>>
          /\ search_empty' = TRUE
          /\ search_raised' = search_raised \union {ddgs_fallback}
          /\ UNCHANGED <<ss, search_returns>>
    /\ UNCHANGED <<env_expert, config, crawlv, libv, search_calls, gatherv, expert_mode, llmv, content,
                   response, llm_calls, exc_in, answers, synth_trace>>

\* outcomes of one failed attempt of DoubaoClient.complete (lines 72-81)
AttemptFailures == {"ReadTimeout", "HTTPError", "Exception"}

\* variant: the attempt counter does not advance
NextAttemptSame(a) == a

\* for attempt in range(3): the attempt that follows attempt a
NextAttempt(a) == a + 1

\* analyze, lines 210-228 entered with expert_mode false: classic mode.
\* Without evidence the fallback report is built at once; with evidence the
\* handler awaits the classic LLM call.
EnterClassic(its, trace) ==
    IF ~HasEvidence(its)
    THEN /\ content' = FinalCheck(build_fallback_markdown(topic, its), topic, its)
         /\ pc' = "deliver"
         /\ synth_trace' = trace \o <<"CLASSIC_NO_EVIDENCE", "FALLBACK", "DONE">>
         /\ UNCHANGED llm_calls
    ELSE /\ content' = <<>>
         /\ pc' = "classic"
         /\ synth_trace' = Append(trace, "CLASSIC_LLM")
         /\ llm_calls' = Append(llm_calls, "classic")

\* analyze, lines 175-192 (and 210-215 when expert mode is off):
\* gather_readables on the active provider returns or raises
Gather ==
    /\ pc = "gather"
    /\ gather_on' = ss
    /\ \/ /\ GatherCanRaise(ss)
          /\ gather_raised' = TRUE
          /\ response' = [status |-> 500, error |-> "gather failed"]
          /\ pc' = "done"
          /\ UNCHANGED <<env_expert, items_readable, got_text, expert_mode, content,
                         llm_calls, synth_trace>>
       \/ LET sel == Selected(ss, items, max_fetch_html) IN
          \E txt \in [1..Len(sel) -> FetchTexts(ss)] :
            LET its == Enrich(sel, txt)
                env2 == IF GotText(its) = 0 THEN "false" ELSE env_expert
            IN  /\ items_readable' = its
                /\ got_text' = GotText(its)
                /\ env_expert' = env2
                /\ expert_mode' = ExpertEnabled(env2)
                /\ IF ExpertEnabled(env2)
                   THEN /\ pc' = "stage1"
                        /\ content' = <<>>
                        /\ llm_calls' = <<"stage1">>
                        /\ synth_trace' = <<"INIT", "EXPERT_STAGE1">>
                   ELSE EnterClassic(its, <<"INIT">>)
                /\ UNCHANGED <<gather_raised, response>>
    /\ UNCHANGED <<config, crawlv, libv, searchv, llmv, exc_in, answers>>

\* DoubaoClient.complete, lines 72-82: an attempt fails and another one follows
RetryAttempt(at) ==
    /\ pc = at
    /\ attempt < MaxAttempts - 1
    /\ \E e \in AttemptFailures : last_exc' = e
    /\ attempt' = NextAttempt(attempt)
    /\ UNCHANGED <<env_expert, pc, config, crawlv, libv, searchv, gatherv, expert_mode, content,
                   response, llm_calls, exc_in, answers, synth_trace>>

\* the call at `at` ends in an exception: the last attempt fails and complete
\* raises last_exc (lines 83-84), or the answer has no choices[0] and the .get
\* chain that reads it raises
RaisesAt(at) ==
    /\ pc = at
    /\ \/ /\ attempt = MaxAttempts - 1
          /\ \E e \in AttemptFailures : last_exc' = e
       \/ last_exc' = "None"
    /\ attempt' = 0
    /\ exc_in' = exc_in \union {at}

\* variant: an exception in expert mode demotes to classic mode
ExpertExceptDemotes ==
    /\ expert_mode' = FALSE
    /\ EnterClassic(items_readable, Append(synth_trace, "DEMOTE_CLASSIC"))

\* analyze, lines 207-209: except in expert mode, the fallback report for the request
ExpertExcept ==
    /\ content' = build_fallback_markdown(topic, items_readable)
    /\ pc' = "deliver"
    /\ synth_trace' = synth_trace \o <<"FALLBACK", "DONE">>
    /\ UNCHANGED <<expert_mode, llm_calls>>

\* analyze, lines 193-201: stage 1 of expert mode and the demotion to classic
Stage1 ==
    \/ RetryAttempt("stage1")
    \/ /\ RaisesAt("stage1")
       /\ ExpertExcept
       /\ UNCHANGED <<env_expert, config, crawlv, libv, searchv, gatherv, response, answers>>
    \/ /\ pc = "stage1"
       /\ \E json_text \in Stage1Answers :
            /\ stage1_text' = json_text
            /\ IF Stage1Demotes(json_text)
               THEN /\ expert_mode' = FALSE
                    /\ EnterClassic(items_readable, Append(synth_trace, "DEMOTE_CLASSIC"))
               ELSE /\ pc' = "stage2"
                    /\ llm_calls' = Append(llm_calls, "stage2")
                    /\ synth_trace' = Append(synth_trace, "EXPERT_STAGE2")
                    /\ UNCHANGED <<expert_mode, content>>
       /\ attempt' = 0
       /\ last_exc' = "None"
       /\ UNCHANGED <<env_expert, config, crawlv, libv, searchv, gatherv, response, exc_in, llm_answer>>

\* analyze, lines 203-206: stage 2 of expert mode
Stage2 ==
    \/ RetryAttempt("stage2")
    \/ /\ RaisesAt("stage2")
       /\ ExpertExcept
       /\ UNCHANGED <<env_expert, config, crawlv, libv, searchv, gatherv, response, answers>>
    \/ /\ pc = "stage2"
       /\ \E a \in MarkdownAnswers :
            /\ llm_answer' = a
            /\ content' = a
       /\ pc' = "deliver"
       /\ synth_trace' = Append(synth_trace, "DONE")
       /\ UNCHANGED <<env_expert, config, crawlv, libv, searchv, gatherv, expert_mode, llmv, response,
                      llm_calls, exc_in, stage1_text>>

\* synthesis states entered after the classic LLM call answered c
ClassicTail(c) ==
    IF FinalCheck(c, topic, items_readable) = c THEN <<"DONE">> ELSE <<"FALLBACK", "DONE">>

\* analyze, lines 217-228: the single classic LLM call and the check of its answer
Classic ==
    \/ RetryAttempt("classic")
    \/ /\ RaisesAt("classic")
       /\ content' = FinalCheck(build_fallback_markdown(topic, items_readable),
                                topic, items_readable)
       /\ pc' = "deliver"
       /\ synth_trace' = synth_trace \o <<"FALLBACK", "DONE">>
       /\ UNCHANGED <<env_expert, config, crawlv, libv, searchv, gatherv, expert_mode, response,
                      llm_calls, answers>>
    \/ /\ pc = "classic"
       /\ \E a \in MarkdownAnswers :
            /\ llm_answer' = a
            /\ content' = FinalCheck(a, topic, items_readable)
            /\ synth_trace' = synth_trace \o ClassicTail(a)
       /\ pc' = "deliver"
       /\ UNCHANGED <<env_expert, config, crawlv, libv, searchv, gatherv, expert_mode, llmv, response,
                      llm_calls, exc_in, stage1_text>>

\* LOW_FETCH_RATE_THRESHOLD default 0.4 as a fraction, LOW_FETCH_MIN_DOCS default 3
LowFetchNum == 4
LowFetchDen == 10
LowFetchMinDocs == 3

\* analyze, lines 248-258
Notice(empty, got, total) ==
    IF empty THEN "empty search"
    ELSE IF got < LowFetchMinDocs
            \/ (IF total = 0 THEN TRUE ELSE got * LowFetchDen < LowFetchNum * total)
         THEN "low fetch rate" ELSE ""

\* analyze, lines 266-270
FallbackField(empty, c) ==
    IF empty THEN "empty search, draft report returned"
    ELSE IF Contains(c, ModelDownNote) THEN "LLM failed, draft report returned" ELSE ""

\* steps of the render collaborator (lines 240-242)
RenderSteps == {"md_to_html_body", "build_full_html", "html_to_pdf"}

\* analyze, lines 230-272: write the Markdown, render, build the response.
\* body_html is bound only when md_to_html_body returned; the response reads it.
Deliver ==
    /\ pc = "deliver"
    /\ \E failed \in RenderSteps \union {"None"} :
         response' =
            IF failed = "md_to_html_body"
            THEN [status |-> 500, error |-> "UnboundLocalError: body_html"]
            ELSE [status |-> 200, markdown |-> content,
                  pdf |-> (failed = "None"),
                  mode |-> IF ExpertEnabled(env_expert) THEN "expert" ELSE "classic",
                  fallback |-> FallbackField(search_empty, content),
                  notice |-> Notice(search_empty, got_text, Len(items_readable))]
    /\ pc' = "done"
    /\ UNCHANGED <<env_expert, config, crawlv, libv, searchv, gatherv, expert_mode, llmv, content,
                   llm_calls, exc_in, answers, synth_trace>>

Next ==
    \/ Receive
    \/ PrimarySearch
    \/ SecondarySearch
    \/ Gather
    \/ Stage1
    \/ Stage2
    \/ Classic
    \/ Deliver

Spec == Init /\ [][Next]_vars

\* the event loop resumes a suspended handler once its await completes, and
\* every network await is bounded by the client's timeouts
LiveSpec ==
    /\ Spec
    /\ WF_vars(PrimarySearch) /\ WF_vars(SecondarySearch) /\ WF_vars(Gather)
    /\ WF_vars(Stage1) /\ WF_vars(Stage2) /\ WF_vars(Classic) /\ WF_vars(Deliver)

\* ------------------------------------------------------------------------
\* Properties
\* ------------------------------------------------------------------------
PastSearch == pc \notin {"idle", "search", "search2"} /\ topic # ""
InTrace(x) == \E i \in 1..Len(synth_trace) : synth_trace[i] = x
HasCall(c) == \E i \in 1..Len(llm_calls) : llm_calls[i] = c
LastState == synth_trace[Len(synth_trace)]
FallbackReport == build_fallback_markdown(topic, items_readable)

\* C1: when the primary's search returned [] and the configured secondary
\* returned n >= 1 items, the active items are exactly those n items and
\* gather_readables is invoked on the secondary; whenever the item set is
\* non-empty, gather_readables is invoked on the provider that produced it.
C1_GatherOnProducer ==
    /\ pc = "gather" => \A i \in 1..Len(items) : items[i].by = ss
    /\ gather_on # "None" => \A i \in 1..Len(items) : items[i].by = gather_on
    /\ (PastSearch /\ Len(search_returns) = 2 /\ search_returns[2].n >= 1)
         => /\ search_returns[1] = [by |-> provider, n |-> 0]
            /\ search_returns[2].by = ddgs_fallback
            /\ items = SearchResult(ddgs_fallback, search_returns[2].n)
            /\ ss = ddgs_fallback
            /\ gather_on \in {"None", ddgs_fallback}

C1_Witness ==
    /\ search_returns = <<[by |-> "crawler", n |-> 0], [by |-> "ddgs", n |-> 2]>>
    /\ gather_on = "ddgs"
    /\ Len(items) = 2

C3_SearchFailureContinues ==
    search_raised # {}
      => /\ items = <<>> /\ search_empty
         /\ pc # "done" \/ gather_on # "None"
         /\ (pc \in {"deliver", "done"} /\ ~gather_raised)
              => /\ items_readable = <<>>
                 /\ synth_trace # <<>> /\ LastState = "DONE"
                 /\ content = build_fallback_markdown(topic, <<>>)

C3_Witness ==
    /\ search_raised = {"ddgs"}
    /\ provider = "llm"
    /\ pc = "done"
    /\ response.status = 200

\* C4 as stated: a request with a non-empty topic ends in an error response
\* only if gather_readables raised.
C4_ErrorOnlyFromGather ==
    (pc = "done" /\ topic # "" /\ response.status # 200) => gather_raised

\* the transitions of the synthesis state machine as the specification draws it
SpecEdges ==
    { <<"INIT", "EXPERT_STAGE1">>, <<"EXPERT_STAGE1", "EXPERT_STAGE2">>,
      <<"EXPERT_STAGE2", "DONE">>, <<"EXPERT_STAGE1", "DEMOTE_CLASSIC">>,
      <<"DEMOTE_CLASSIC", "CLASSIC_LLM">>, <<"CLASSIC_LLM", "DONE">>,
      <<"DEMOTE_CLASSIC", "CLASSIC_NO_EVIDENCE">>,
      <<"CLASSIC_NO_EVIDENCE", "FALLBACK">>, <<"FALLBACK", "DONE">> }
    \union { <<x, "FALLBACK">> : x \in {"INIT", "EXPERT_STAGE1", "EXPERT_STAGE2",
                                         "DEMOTE_CLASSIC", "CLASSIC_LLM",
                                         "CLASSIC_NO_EVIDENCE"} }

\* the transitions taken when expert mode is off after gather_readables
DirectClassicEdges == { <<"INIT", "CLASSIC_LLM">>, <<"INIT", "CLASSIC_NO_EVIDENCE">> }

TraceFollows(edges) ==
    /\ synth_trace # <<>> => synth_trace[1] = "INIT"
    /\ \A i \in 1..(Len(synth_trace) - 1) : <<synth_trace[i], synth_trace[i + 1]>> \in edges

\* the stage-1 answer parses to an object with a non-empty references field
Stage1Parsed ==
    /\ stage1_text # NoAnswer
    /\ Truthy(DictGet(try_parse_json_object(stage1_text), "\"references\""))

\* C5 as stated: synthesis takes only the transitions of the stated machine,
\* starting in EXPERT_STAGE1 and reaching the classic states only through
\* DEMOTE_CLASSIC.
C5_StatedMachine ==
    /\ TraceFollows(SpecEdges)
    /\ Len(synth_trace) >= 2 => synth_trace[2] = "EXPERT_STAGE1"

\* C5 amended: synthesis starts in EXPERT_STAGE1 only when expert mode is
\* enabled after gather_readables and some item has text; otherwise it starts
\* directly in CLASSIC_LLM (some item has text) or CLASSIC_NO_EVIDENCE (none
\* has). Apart from these two starts it takes only the stated transitions:
\* EXPERT_STAGE2 only after a successful stage-1 parse, DEMOTE_CLASSIC only
\* after an unusable stage-1 answer and always on to CLASSIC_LLM, and an
\* exception in an LLM call leads to FALLBACK.
C5_AmendedMachine ==
    /\ TraceFollows(SpecEdges \union DirectClassicEdges)
    /\ Len(synth_trace) >= 2 =>
         /\ synth_trace[2] = "EXPERT_STAGE1"
              <=> (ExpertEnabled(env_expert) /\ HasEvidence(items_readable))
         /\ synth_trace[2] = "CLASSIC_LLM"
              <=> (~ExpertEnabled(env_expert) /\ HasEvidence(items_readable))
         /\ synth_trace[2] = "CLASSIC_NO_EVIDENCE" <=> ~HasEvidence(items_readable)
    /\ InTrace("EXPERT_STAGE2") => Stage1Parsed
    /\ InTrace("DEMOTE_CLASSIC")
         => /\ stage1_text # NoAnswer /\ ~Stage1Parsed
            /\ synth_trace[2] = "EXPERT_STAGE1" /\ synth_trace[3] = "DEMOTE_CLASSIC"
            /\ synth_trace[4] = "CLASSIC_LLM"
    /\ exc_in # {} => InTrace("FALLBACK")

C5_Witness ==
    /\ synth_trace = <<"INIT", "CLASSIC_LLM", "DONE">>
    /\ llm_calls = <<"classic">>

SynthPcs == {"stage1", "stage2", "classic"}

\* a step of the synthesis stage that ends in the fallback report
FallbackStep == (Stage1 \/ Stage2 \/ Classic) /\ synth_trace' = synth_trace \o <<"FALLBACK", "DONE">>

\* C6: every request that enters the synthesis stage eventually reaches DONE
\* with the report ready for delivery, whatever the LLM calls do; from every
\* non-terminal synthesis state a step to FALLBACK is possible, and FALLBACK
\* always ends in DONE with the fallback report as content.
C6_SynthesisTerminates ==
    /\ (pc \in SynthPcs) ~> (pc = "deliver" /\ LastState = "DONE")
    /\ [](pc \in SynthPcs => ENABLED FallbackStep)
    /\ [](InTrace("FALLBACK")
            => (pc \in {"deliver", "done"} /\ LastState = "DONE" /\ content = FallbackReport))

C6_Witness ==
    /\ pc = "deliver"
    /\ llm_calls = <<"stage1", "stage2">>
    /\ exc_in = {"stage2"}
    /\ last_exc = "ReadTimeout"
    /\ InTrace("FALLBACK")

\* stage-1 answers that do not parse to an object with a non-empty references
UnusableStage1 ==
    { <<>>,
      <<"no", " ", "json", " ", "here">>,
      <<"{", "\"summary\"", ":", "[", "\"a\"", "]", "}">>,
      <<"{", "\"references\"", ":", "[", "]", "}">>,
      <<"{", "\"references\"", ":", "[", "1">> }

\* C7: when the stage-1 answer cannot be parsed to a JSON object or the object
\* lacks a non-empty references field (e.g. "no json here"), the request goes
\* on to the classic single-stage prompt without an exception, and stage 2 is
\* not executed for it.
C7_DemotionToClassic ==
    stage1_text \in UnusableStage1
      => /\ ~expert_mode
         /\ "stage1" \notin exc_in
         /\ llm_calls = <<"stage1", "classic">>
         /\ SubSeq(synth_trace, 1, 4) = <<"INIT", "EXPERT_STAGE1", "DEMOTE_CLASSIC", "CLASSIC_LLM">>
         /\ ~InTrace("EXPERT_STAGE2")

C7_Witness ==
    /\ stage1_text = <<"no", " ", "json", " ", "here">>
    /\ pc = "classic"

\* C8: an exception during expert stage 1 or stage 2 makes the fallback report
\* the request's report; the classic LLM call is not attempted afterwards.
C8_ExpertExceptionFallback ==
    (exc_in \cap {"stage1", "stage2"}) # {}
      => /\ pc \in {"deliver", "done"}
         /\ content = FallbackReport
         /\ ~HasCall("classic")
         /\ SubSeq(synth_trace, Len(synth_trace) - 1, Len(synth_trace)) = <<"FALLBACK", "DONE">>

C8_Witness ==
    /\ exc_in = {"stage1"}
    /\ pc = "done"
    /\ response.status = 200
    /\ response.markdown = FallbackReport

\* C9: when no item returned by gather_readables has non-blank article_text,
\* the synthesis stage makes no LLM call and the report is the fallback report.
C9_NoEvidenceNoLLM ==
    (gather_on # "None" /\ ~gather_raised /\ ~HasEvidence(items_readable))
      => /\ llm_calls = <<>>
         /\ pc \in {"deliver", "done"}
         /\ content = FallbackReport

C9_Witness ==
    /\ Len(items_readable) = 2
    /\ items_readable[1].article_text = " "
    /\ items_readable[2].article_text = ""
    /\ pc = "deliver"

\* C10: in classic mode with evidence, when the LLM call raises, or its answer
\* is empty or contains one of the two "no evidence" strings, the report is the
\* fallback report.
C10_ClassicFailureFallback ==
    (pc \in {"deliver", "done"} /\ HasCall("classic")
       /\ \/ "classic" \in exc_in
          \/ llm_answer = <<>>
          \/ Contains(llm_answer, NoEvidence1)
          \/ Contains(llm_answer, NoEvidence2))
      => content = FallbackReport

C10_Witness ==
    /\ pc = "deliver"
    /\ llm_calls = <<"classic">>
    /\ llm_answer = <<Line("llm", NoEvidence2)>>

\* number of lines of a given kind in a report
CountKind(c, kind) == Cardinality({i \in 1..Len(c) : c[i].k = kind})

\* C11: whenever the request's report comes from the fallback builder, the
\* builder has returned (no exception) a non-empty report whose heading is the
\* topic, with one reference entry per gathered item, in order and whatever
\* its text, and one key-issue entry per item with non-blank article_text.
C11_FallbackBuilderShape ==
    (pc \in {"deliver", "done"} /\ InTrace("FALLBACK"))
      => /\ content # <<>>
         /\ content[1] = Line("h1", topic)
         /\ CountKind(content, "ref") = Len(items_readable)
         /\ LET base == Len(content) - Len(items_readable) IN
              \A j \in 1..Len(items_readable) :
                 /\ content[base + j].k = "ref"
                 /\ content[base + j].href = items_readable[j].href
         /\ CountKind(content, "issue") = GotText(items_readable)
         /\ \A i \in 1..Len(content) :
              content[i].k = "issue" => StripText(content[i].text) # ""

C11_Witness ==
    /\ pc = "deliver"
    /\ InTrace("FALLBACK")
    /\ Len(items_readable) = 2
    /\ items_readable[1].article_text = "text"
    /\ items_readable[2].article_text = ""
    /\ CountKind(content, "ref") = 2
    /\ CountKind(content, "issue") = 1

\* the fallback report of a request whose search found nothing
C11_WitnessEmptyList ==
    /\ pc = "deliver"
    /\ items_readable = <<>>
    /\ content = FallbackReport

\* C19 as stated: no provider's search ever raises.
C19_SearchNeverRaises == search_raised = {}

Min(a, b) == IF a < b THEN a ELSE b

\* gather_readables returned for this request
GatherReturned == gather_on # "None" /\ ~gather_raised

\* the i-th output item is the i-th input item with an article_text added
SameItem(out, in) == out.href = in.href /\ out.source = in.source /\ out.by = in.by

\* C20 as stated: gather_readables returns one output item per input item, in
\* input order; no input item is dropped.
C20_OnePerInput ==
    GatherReturned
      => /\ Len(items_readable) = Len(items)
         /\ \A i \in 1..Len(items) : SameItem(items_readable[i], items[i])

\* C20 amended: gather_readables returns one output item for each of the
\* first max_fetch_html input items (for the crawler: for every input item),
\* in input order; an item whose fetch failed has empty article_text; input
\* items beyond max_fetch_html are left out of the result.
C20_OnePerSelected ==
    GatherReturned
      => /\ Len(items_readable) =
              IF gather_on = "crawler" THEN Len(items)
              ELSE Min(Len(items), max_fetch_html)
         /\ \A i \in 1..Len(items_readable) :
              /\ SameItem(items_readable[i], items[i])
              /\ items_readable[i].article_text \in Texts

C20_Witness ==
    /\ GatherReturned
    /\ gather_on = "ddgs"
    /\ max_fetch_html = 1
    /\ Len(items) = 2
    /\ Len(items_readable) = 1
    /\ items_readable[1].article_text = ""

\* ------------------------------------------------------------------------
\* CrawlerService: search over the trusted domains
\* ------------------------------------------------------------------------
\* states of a task that has finished
Terminal == {"skipped", "returned", "raised", "timeout"}

\* the items a task contributed: n items of domain d
DomainItems(d, n) == [k \in 1..n |-> [source |-> d, k |-> k]]

\* lines 153-158: the lists among the gathered results, concatenated in task order
RECURSIVE Collect(_, _, _)
Collect(doms, tk, fnd) ==
    IF doms = <<>> THEN <<>>
    ELSE (IF tk[Head(doms)] = "returned" THEN DomainItems(Head(doms), fnd[Head(doms)])
          ELSE <<>>)
         \o Collect(Tail(doms), tk, fnd)

\* line 160: results[:self.max_total_limit]
Truncate(sq, n) == SubSeq(sq, 1, IF Len(sq) < n THEN Len(sq) ELSE n)

\* variant: gather returns as soon as one task has finished
GatherReadyFirst(tk) == \E d \in Domains : tk[d] \in Terminal

\* line 151: asyncio.gather(*tasks, return_exceptions=True) returns when every
\* task has finished, by return, exception or timeout
GatherReady(tk) == \A d \in Domains : tk[d] \in Terminal

\* app.analyze line 127, CrawlerService.__init__ lines 53-69: a request builds
\* its crawler, which loads the suppression file
Construct ==
    /\ cpc \in {"none", "returned", "raised"}
    /\ \E bl \in {{}, {Trusted[2]}}, mt \in {1, MaxTotalDefault} :
         /\ blacklist' = bl
         /\ max_total_limit' = mt
    /\ suppress' = _load_suppress(suppress_file)
    /\ cpc' = "ready"
    /\ task' = [d \in Domains |-> "none"]
    /\ found' = [d \in Domains |-> 0]
    /\ results' = <<>>
    /\ unsaved' = FALSE
    /\ recorded' = [d \in Domains |-> <<>>]
    /\ entry' = [d \in Domains |-> NoEntry]
    /\ UNCHANGED <<appv, libv, now, ticks, suppress_file, other_suppress>>

\* search, lines 131-149: the client is built and one task per trusted domain
\* is created, or building the client raises and search raises with it
StartSearch ==
    /\ cpc = "ready"
    /\ \/ /\ cpc' = "searching"
          /\ task' = [d \in Domains |-> "pending"]
       \/ /\ cpc' = "raised"
          /\ UNCHANGED task
    /\ UNCHANGED <<appv, libv, now, ticks, suppress_file, suppress, other_suppress, blacklist,
                   max_total_limit, found, results, unsaved, recorded, entry>>

\* _search_one_domain, lines 184-195: skip a blacklisted or suppressed domain,
\* otherwise start crawling it
EnterDomain(d) ==
    /\ cpc = "searching"
    /\ task[d] = "pending"
    /\ entry' = [entry EXCEPT ![d] = [t |-> now, rec |-> suppress[d], read |-> TRUE]]
    /\ task' = [task EXCEPT ![d] =
                  IF d \in blacklist THEN "skipped"
                  ELSE IF IsSuppressed(suppress[d], now) THEN "skipped"
                  ELSE "running"]
    /\ UNCHANGED <<appv, libv, now, ticks, suppress_file, suppress, other_suppress, cpc,
                   blacklist, max_total_limit, found, results, unsaved, recorded>>

\* variant: every completed crawl counts as a hit
HitFoundAlways(n) == TRUE

\* line 252: len(items) > 0
HitFound(n) == n > 0

\* _search_one_domain, lines 196-255: the crawl completes with n items;
\* with n > 0 the domain's record is removed and, if there was one, saved
CrawlReturn(d) ==
    /\ task[d] = "running"
    /\ \E n \in 0..MaxFound :
         /\ found' = [found EXCEPT ![d] = n]
         /\ IF HitFound(n)
            THEN /\ recorded' = [recorded EXCEPT ![d] = Append(@, "success")]
                 /\ suppress' = _record_success(suppress, d)
                 /\ IF suppress[d].present
                    THEN \E o \in SaveOutcomes(suppress_file, suppress') :
                            /\ suppress_file' = o.file
                            /\ unsaved' = o.failed
                    ELSE UNCHANGED <<suppress_file, unsaved>>
            ELSE UNCHANGED <<recorded, suppress, suppress_file, unsaved>>
    /\ task' = [task EXCEPT ![d] = "returned"]
    /\ UNCHANGED <<appv, libv, now, ticks, other_suppress, cpc, blacklist, max_total_limit,
                   results, entry>>

\* _search_one_domain, lines 256-259: the crawl raises; a failure is recorded
\* and saved, and the exception goes on to the task
CrawlRaise(d) ==
    /\ task[d] = "running"
    /\ suppress[d].count < MaxCount
    /\ recorded' = [recorded EXCEPT ![d] = Append(@, "failure")]
    /\ suppress' = _record_failure(suppress, d, now)
    /\ \E o \in SaveOutcomes(suppress_file, suppress') :
         /\ suppress_file' = o.file
         /\ unsaved' = o.failed
    /\ task' = [task EXCEPT ![d] = "raised"]
    /\ UNCHANGED <<appv, libv, now, ticks, other_suppress, cpc, blacklist, max_total_limit,
                   found, results, entry>>

\* search, lines 145-148: wait_for cancels the task after 60 s; the
\* CancelledError raised inside _search_one_domain is not an Exception, so the
\* handler at line 256 does not run
CrawlTimeout(d) ==
    /\ task[d] = "running"
    /\ task' = [task EXCEPT ![d] = "timeout"]
    /\ UNCHANGED <<appv, libv, now, ticks, suppress_file, suppress, other_suppress, cpc,
                   blacklist, max_total_limit, found, results, unsaved, recorded, entry>>

\* search, lines 151-160: every task has finished; the lists are collected
Finish ==
    /\ cpc = "searching"
    /\ GatherReady(task)
    /\ results' = Truncate(Collect(Trusted, task, found), max_total_limit)
    /\ cpc' = "returned"
    /\ UNCHANGED <<appv, libv, now, ticks, suppress_file, suppress, other_suppress, blacklist,
                   max_total_limit, task, found, unsaved, recorded, entry>>

\* time passes: a second, or a whole suppression period
Tick ==
    /\ ticks < MaxTicks
    /\ \E dt \in {1, SuppressTTL} : now' = now + dt
    /\ ticks' = ticks + 1
    /\ UNCHANGED <<appv, libv, suppress_file, suppress, other_suppress, cpc, blacklist,
                   max_total_limit, task, found, results, unsaved, recorded, entry>>

\* app.analyze line 127 in a request that overlaps the search: it builds its
\* own CrawlerService, which loads the suppression file
OtherConstruct ==
    /\ cpc = "searching"
    /\ ~other_suppress.live
    /\ other_suppress' = [live |-> TRUE, st |-> _load_suppress(suppress_file)]
    /\ UNCHANGED <<appv, libv, now, ticks, suppress_file, suppress, cpc, blacklist,
                   max_total_limit, task, found, results, unsaved, recorded, entry>>

\* _record_failure in the overlapping request: its store is updated and
\* written to the same file; the request then ends
OtherRecordFailure(d) ==
    /\ other_suppress.live
    /\ other_suppress.st[d].count < MaxCount
    /\ LET st2 == _record_failure(other_suppress.st, d, now) IN
         /\ suppress_file' = JsonFile(st2)
         /\ other_suppress' = [live |-> FALSE, st |-> EmptyStore]
    /\ UNCHANGED <<appv, libv, now, ticks, suppress, cpc, blacklist, max_total_limit, task,
                   found, results, unsaved, recorded, entry>>

CrawlerNext ==
    \/ Construct
    \/ StartSearch
    \/ \E d \in Domains : EnterDomain(d)
    \/ \E d \in Domains : CrawlReturn(d)
    \/ \E d \in Domains : CrawlRaise(d)
    \/ \E d \in Domains : CrawlTimeout(d)
    \/ Finish
    \/ Tick

\* the crawler and its store on their own; the file is missing or unparsable
\* before the first request
CrawlerInit ==
    /\ AppInit
    /\ env_expert = "unset"
    /\ suppress_file \in {MissingFile, GarbageFile}
    /\ CrawlerIdle
    /\ LibIdle

CrawlerSpec == CrawlerInit /\ [][CrawlerNext]_vars

\* two requests that overlap, each with its own CrawlerService over the same
\* suppression file; the clock stands still
OverlapNext ==
    \/ Construct
    \/ StartSearch
    \/ \E d \in Domains : EnterDomain(d)
    \/ \E d \in Domains : CrawlReturn(d)
    \/ \E d \in Domains : CrawlRaise(d)
    \/ Finish
    \/ OtherConstruct
    \/ \E d \in Domains : OtherRecordFailure(d)

OverlapSpec == CrawlerInit /\ [][OverlapNext]_vars

\* ------------------------------------------------------------------------
\* Properties of the crawler and of the suppression store
\* ------------------------------------------------------------------------
\* a _record_failure(d) call happens in this step
FailureRecorded(d) == recorded'[d] = Append(recorded[d], "failure")

\* the task of domain d read the clock and the record, and the clock was
\* before the record's suppress_until
EnteredSuppressed(d) == entry[d].read /\ entry[d].t < entry[d].rec.suppress_until

\* C12: starting from no record, a domain with fewer than threshold recorded
\* failures has no suppress_until and is not suppressed; every recorded
\* failure adds one to the count, and the failure that brings the count to
\* the threshold sets suppress_until to the time of that failure plus the
\* TTL; a task that reads the record at a time before suppress_until skips
\* the domain.
C12_SuppressionThreshold ==
    /\ [](\A d \in Domains :
            suppress[d].count < SuppressThreshold
              => suppress[d].suppress_until = 0 /\ ~IsSuppressed(suppress[d], now))
    /\ [][\A d \in Domains :
            FailureRecorded(d)
              => /\ suppress'[d].count = suppress[d].count + 1
                 /\ suppress'[d].count >= SuppressThreshold
                      => suppress'[d].suppress_until = now + SuppressTTL]_vars
    /\ [](\A d \in Domains : EnteredSuppressed(d) => task[d] = "skipped")

C12_Witness ==
    /\ suppress[Trusted[1]].count = SuppressThreshold
    /\ suppress[Trusted[1]].suppress_until = 1 + SuppressTTL
    /\ now = 1 + 1
    /\ task[Trusted[1]] = "skipped"
    /\ entry[Trusted[1]].t = 1 + 1

\* C13: a recorded success removes the domain's record whatever its count
\* and suppress_until were: the count is zero again, the domain is not
\* suppressed, and it takes threshold failures to suppress it again.
C13_SuccessClearsRecord ==
    \A d \in Domains :
        recorded[d] = <<"success">>
          => /\ suppress[d] = NoRecord
             /\ ~IsSuppressed(suppress[d], now)
             /\ suppress[d].count + SuppressThreshold = SuppressThreshold

C13_Witness ==
    /\ entry[Trusted[1]].rec.count = SuppressThreshold
    /\ entry[Trusted[1]].rec.suppress_until = SuppressTTL
    /\ recorded[Trusted[1]] = <<"success">>
    /\ suppress[Trusted[1]] = NoRecord

\* C14 as stated: the crawler skips a trusted domain if and only if the
\* clock is before the domain's suppress_until.
C14_SkippedIffSuppressed ==
    \A d \in Domains :
        entry[d].read => ((task[d] = "skipped") <=> EnteredSuppressed(d))

\* items of domain d in the list search returned
CountFrom(res, d) == Cardinality({i \in 1..Len(res) : res[i].source = d})

\* C14 amended: the crawler skips a trusted domain if and only if the domain
\* is blacklisted or the clock is before the domain's suppress_until; a
\* skipped domain gets no fetch, records nothing and contributes no items.
C14_SkippedIffBlacklistedOrSuppressed ==
    \A d \in Domains :
        entry[d].read
          => /\ (task[d] = "skipped") <=> (d \in blacklist \/ EnteredSuppressed(d))
             /\ task[d] = "skipped"
                  => /\ found[d] = 0
                     /\ recorded[d] = <<>>
                     /\ CountFrom(results, d) = 0

C14_Witness ==
    /\ cpc = "returned"
    /\ Trusted[2] \in blacklist
    /\ task[Trusted[2]] = "skipped"
    /\ ~EnteredSuppressed(Trusted[2])
    /\ task[Trusted[1]] = "skipped"
    /\ EnteredSuppressed(Trusted[1])

\* the crawl of domain d ran (the domain was neither blacklisted nor suppressed) and ended
Processed(d) == task[d] \in {"returned", "raised", "timeout"}

\* C15 as stated: for every processed domain exactly one outcome is
\* recorded, a success if at least one item was found and a failure otherwise.
C15_ExactlyOneOutcome ==
    \A d \in Domains :
        Processed(d)
          => recorded[d] = IF found[d] > 0 THEN <<"success">> ELSE <<"failure">>

\* C15 amended: for every processed domain at most one outcome is recorded:
\* a success when the crawl completed with at least one item, a failure when
\* the crawl raised an exception, and nothing when the crawl completed with
\* no item or was cancelled.
C15_OutcomeRecorded ==
    \A d \in Domains :
        /\ (task[d] = "returned" /\ found[d] > 0) => recorded[d] = <<"success">>
        /\ task[d] = "raised" => recorded[d] = <<"failure">>
        /\ (task[d] = "returned" /\ found[d] = 0) => recorded[d] = <<>>
        /\ task[d] \notin {"returned", "raised"} => recorded[d] = <<>>

C15_Witness ==
    /\ task[Trusted[1]] = "returned"
    /\ found[Trusted[1]] = 0
    /\ recorded[Trusted[1]] = <<>>
    /\ suppress[Trusted[1]] = entry[Trusted[1]].rec
    /\ task[Trusted[2]] = "raised"
    /\ recorded[Trusted[2]] = <<"failure">>

\* C16 as stated: a crawl cancelled by the per-domain timeout is recorded as
\* a failure of that domain.
C16_TimeoutRecordedAsFailure ==
    \A d \in Domains :
        task[d] = "timeout"
          => /\ recorded[d] = <<"failure">>
             /\ suppress[d].count = entry[d].rec.count + 1

\* items contributed by the task of domain d
FoundBy(d) == IF task[d] = "returned" THEN found[d] ELSE 0

\* C17: search returns only when every domain's task has finished; what it
\* returns holds the items of the tasks that returned a list, in domain order
\* and cut at max_total_limit, and nothing from the others; a task that ends
\* in an exception or a timeout changes no other task and none of its items.
C17_TasksIndependent ==
    /\ [](cpc = "returned"
            => /\ \A d \in Domains : task[d] \in Terminal
               /\ Len(results) = Min(FoundBy(Trusted[1]) + FoundBy(Trusted[2]),
                                     max_total_limit)
               /\ \A d \in Domains : CountFrom(results, d) <= FoundBy(d)
               /\ CountFrom(results, Trusted[1]) = Min(FoundBy(Trusted[1]), max_total_limit)
               /\ \A i \in 1..Len(results), j \in 1..Len(results) :
                     (results[i].source = Trusted[2] /\ results[j].source = Trusted[1])
                       => j < i)
    /\ [][\A d \in Domains, e \in Domains :
            (d # e /\ task[d] = "running" /\ task'[d] \in {"raised", "timeout"})
              => /\ task'[e] = task[e]
                 /\ found'[e] = found[e]
                 /\ cpc' = cpc]_vars

C17_Witness ==
    /\ cpc = "returned"
    /\ task[Trusted[1]] = "raised"
    /\ task[Trusted[2]] = "returned"
    /\ found[Trusted[2]] = 1
    /\ results = DomainItems(Trusted[2], 1)

\* C18 as stated requires that a store built anew finds the counts this
\* request recorded: whenever this request's latest save did not fail, no
\* domain has a smaller count in the suppression file than in the request's
\* store.
C18_RecordedCountsPersist ==
    (cpc \in {"ready", "searching", "returned"} /\ ~unsaved)
      => \A d \in Domains : _load_suppress(suppress_file)[d].count >= suppress[d].count

\* ------------------------------------------------------------------------
\* gather_readables: the enrichment fetches of one call
\* ------------------------------------------------------------------------
\* largest number of items handed to one gather_readables call in the model
MaxBatch == 4

\* crawler_service.py line 265: sem = asyncio.Semaphore(3)
FetchSlots == 3

\* the number of fetches whose request is sent and not yet answered
InFlight(f) == Cardinality({i \in 1..Len(f) : f[i] = "inflight"})

\* whether a task that got to run may send its request now.
\* CrawlerService.fetch_one enters "async with sem" first; the fetch_readable
\* of SearchService (also used by MCPDDGService) and of LLMSearchService
\* awaits client.get with nothing in front of it; MockSearchService's
\* fetch_readable has no await, so each task runs to its end before the next.
Admits(p, f) ==
    CASE p = "crawler" -> InFlight(f) < FetchSlots
      [] p = "mock" -> InFlight(f) = 0
      [] OTHER -> TRUE

\* gather_readables is called: the items are selected and one task per
\* selected item is handed to asyncio.gather (crawler: after the client is
\* built, which can raise)
GatherCall ==
    /\ gpc = "idle"
    /\ \E p \in Providers, n \in 0..MaxBatch, lim \in {2, MaxFetchDefault} :
         /\ g_variant' = p
         /\ g_n' = n
         /\ g_limit' = lim
         /\ \/ /\ GatherCanRaise(p)
               /\ gpc' = "raised"
               /\ UNCHANGED <<fetch, g_texts>>
            \/ LET sel == Selected(p, SearchResult(p, n), lim) IN
               /\ gpc' = "gathering"
               /\ fetch' = [i \in 1..Len(sel) |-> "created"]
               /\ g_texts' = [i \in 1..Len(sel) |-> ""]
    /\ UNCHANGED <<g_done, readables>>
    /\ UNCHANGED <<appv, crawlv, extv, rankv, jsonv, busv, clientv>>

\* the event loop runs the tasks in creation order; task i reaches its
\* request (client.get) once it is admitted
FetchBegin(i) ==
    /\ gpc = "gathering"
    /\ i \in 1..Len(fetch)
    /\ fetch[i] = "created"
    /\ \A j \in 1..(i - 1) : fetch[j] # "created"
    /\ Admits(g_variant, fetch)
    /\ fetch' = [fetch EXCEPT ![i] = "inflight"]
    /\ UNCHANGED <<gpc, g_variant, g_n, g_limit, g_texts, g_done, readables>>
    /\ UNCHANGED <<appv, crawlv, extv, rankv, jsonv, busv, clientv>>

\* the answer to task i's request arrives (or its request fails): the task
\* returns its text, '' on failure, and leaves the semaphore
FetchEnd(i) ==
    /\ gpc = "gathering"
    /\ i \in 1..Len(fetch)
    /\ fetch[i] = "inflight"
    /\ \E t \in FetchTexts(g_variant) : g_texts' = [g_texts EXCEPT ![i] = t]
    /\ fetch' = [fetch EXCEPT ![i] = "done"]
    /\ g_done' = Append(g_done, i)
    /\ UNCHANGED <<gpc, g_variant, g_n, g_limit, readables>>
    /\ UNCHANGED <<appv, crawlv, extv, rankv, jsonv, busv, clientv>>

\* asyncio.gather returns the results in task order once every task is done;
\* they are merged with the selected items position by position
GatherReturn ==
    /\ gpc = "gathering"
    /\ \A i \in 1..Len(fetch) : fetch[i] = "done"
    /\ readables' = Enrich(Selected(g_variant, SearchResult(g_variant, g_n), g_limit), g_texts)
    /\ gpc' = "returned"
    /\ UNCHANGED <<g_variant, g_n, g_limit, fetch, g_texts, g_done>>
    /\ UNCHANGED <<appv, crawlv, extv, rankv, jsonv, busv, clientv>>

GatherNext ==
    \/ GatherCall
    \/ \E i \in 1..MaxBatch : FetchBegin(i)
    \/ \E i \in 1..MaxBatch : FetchEnd(i)
    \/ GatherReturn

GatherSpec == Init /\ [][GatherNext]_vars

\* C21 as stated: at every moment of gather_readables, whatever the provider
\* variant, at most three enrichment fetches are in flight, and the returned
\* list holds the selected items in their original order.
C21_AtMostThreeInFlight ==
    /\ InFlight(fetch) <= FetchSlots
    /\ gpc = "returned" =>
         /\ Len(readables) = Len(fetch)
         /\ \A i \in 1..Len(readables) : readables[i].href = i

\* the part of C21 the crawler variant meets: with the semaphore, four tasks
\* never hold a request at once, also when four items are handed in
C21_CrawlerCapped ==
    g_variant = "crawler" => InFlight(fetch) <= FetchSlots

\* ------------------------------------------------------------------------
\* Ranking of search results
\* ------------------------------------------------------------------------
\* longest list handed to a ranking in the model
MaxList == 3

\* the hosts that URLs and the configuration name in the model
Hosts == {"xinhuanet.com", "news.cn", "a.com"}

\* a URL is its netloc and the rest; an item carries its URL and the position
\* it had in the backend's answer
ItemAt(h, i) == [href |-> [netloc |-> h, rest |-> i]]

\* domain_of(url): urlparse(url).netloc
domain_of(url) == url.netloc

RankConfigs ==
    [trusted : SUBSET Hosts, blacklist : SUBSET Hosts, only_trusted : BOOLEAN,
     max_results : {1, MaxList - 1}]

\* the loop of _rank_results (search_service.py lines 30-38): blacklisted items
\* are skipped, the rest is appended to trusted or to others
RECURSIVE RankLoop(_, _, _)
RankLoop(its, cfg, acc) ==
    IF its = <<>> THEN acc
    ELSE LET it == Head(its)
             dom == domain_of(it.href)
         IN  IF dom \in cfg.blacklist THEN RankLoop(Tail(its), cfg, acc)
             ELSE IF cfg.trusted # {} /\ dom \in cfg.trusted
                  THEN RankLoop(Tail(its), cfg, [acc EXCEPT !.trusted = Append(@, it)])
                  ELSE RankLoop(Tail(its), cfg, [acc EXCEPT !.others = Append(@, it)])

NoneRanked == [trusted |-> <<>>, others |-> <<>>]

RECURSIVE Reverse(_)
Reverse(sq) == IF sq = <<>> THEN <<>> ELSE Append(Reverse(Tail(sq)), Head(sq))

\* variant: only_trusted is not consulted
RankKeepOthers(its, cfg) ==
    LET p == RankLoop(its, cfg, NoneRanked)
    IN  Truncate(p.trusted \o p.others, cfg.max_results)

\* variant: the other items are placed in front of the trusted ones
RankOthersFirst(its, cfg) ==
    LET p == RankLoop(its, cfg, NoneRanked)
    IN  Truncate((IF cfg.only_trusted THEN <<>> ELSE p.others) \o p.trusted, cfg.max_results)

\* variant: trusted items are inserted at the front instead of appended
RankTrustedReversed(its, cfg) ==
    LET p == RankLoop(its, cfg, NoneRanked)
    IN  Truncate(Reverse(p.trusted) \o (IF cfg.only_trusted THEN <<>> ELSE p.others),
                 cfg.max_results)

\* SearchService._rank_results and LLMSearchService._rank_results
_rank_results(its, cfg) ==
    LET p == RankLoop(its, cfg, NoneRanked)
        ranked == p.trusted \o (IF cfg.only_trusted THEN <<>> ELSE p.others)
    IN  Truncate(ranked, cfg.max_results)

\* MCPDDGService._rank and MockSearchService._rank
_rank(its, cfg) ==
    LET p == RankLoop(its, cfg, NoneRanked)
        ranked == p.trusted \o (IF cfg.only_trusted THEN <<>> ELSE p.others)
    IN  Truncate(ranked, cfg.max_results)

\* crawler_service.py lines 180-182: domain_aliases
Aliases(d) == IF d = "xinhuanet.com" THEN {"news.cn", "www.news.cn"} ELSE {}

\* CrawlerService._is_same_site
_is_same_site(url_domain, base_domain) ==
    url_domain = base_domain \/ url_domain \in Aliases(base_domain)

\* per_site_limit default
PerSiteDefault == 5

\* the anchors of a page that _search_one_domain keeps (lines 205-221)
RECURSIVE SameSite(_, _)
SameSite(anchors, domain) ==
    IF anchors = <<>> THEN <<>>
    ELSE (IF _is_same_site(domain_of(Head(anchors).href), domain)
          THEN <<Head(anchors)>> ELSE <<>>) \o SameSite(Tail(anchors), domain)

\* CrawlerService._search_one_domain, as far as the choice of items goes: a
\* blacklisted domain yields nothing (lines 184-186), otherwise the same-site
\* anchors, at most per_site_limit of them (line 255)
SameSiteItems(domain, anchors, cfg) ==
    IF domain \in cfg.blacklist THEN <<>>
    ELSE Truncate(SameSite(anchors, domain), PerSiteDefault)

\* what a provider's search does with the candidates it obtained
RankOf(p, seed, its, cfg) ==
    CASE p \in {"ddgs", "llm"} -> _rank_results(its, cfg)
      [] p \in {"mcp", "mock"} -> _rank(its, cfg)
      [] OTHER -> SameSiteItems(seed, its, cfg)

\* the candidate lists: up to MaxList items, item i at position i
RankInputs ==
    UNION { { [i \in 1..n |-> ItemAt(h[i], i)] : h \in [1..n -> Hosts] } : n \in 0..MaxList }

\* a provider's search ranks the candidates
Rank ==
    /\ rpc = "input"
    /\ \E p \in Providers :
         \E seed \in (IF p = "crawler" THEN r_cfg.trusted ELSE {""}) :
            /\ r_variant' = p
            /\ r_seed' = seed
            /\ r_out' = RankOf(p, seed, r_in, r_cfg)
    /\ rpc' = "ranked"
    /\ UNCHANGED <<r_cfg, r_in, r_again>>
    /\ UNCHANGED <<appv, crawlv, extv, fetchv, jsonv, busv, clientv>>

\* the ranked list is ranked once more under the same configuration
ReRank ==
    /\ rpc = "ranked"
    /\ r_again' = RankOf(r_variant, r_seed, r_out, r_cfg)
    /\ rpc' = "reranked"
    /\ UNCHANGED <<r_variant, r_cfg, r_seed, r_in, r_out>>
    /\ UNCHANGED <<appv, crawlv, extv, fetchv, jsonv, busv, clientv>>

RankNext == Rank \/ ReRank

RankInit ==
    /\ AppInit
    /\ env_expert = "unset"
    /\ suppress_file = MissingFile
    /\ CrawlerIdle
    /\ FetchIdle /\ JsonIdle /\ BusIdle /\ ClientIdle /\ ExtIdle
    /\ rpc = "input"
    /\ r_variant = "ddgs"
    /\ r_seed = ""
    /\ r_cfg \in RankConfigs
    /\ r_in \in RankInputs
    /\ r_out = <<>>
    /\ r_again = <<>>

RankSpec == RankInit /\ [][RankNext]_vars

Ranked == rpc \in {"ranked", "reranked"}
Ranking == r_variant # "crawler"

\* C22: with only_trusted set, the ranked output of every provider's ranking
\* holds no item whose domain is outside the trusted set; in particular it
\* is empty when the trusted set is empty.
C22_OnlyTrusted ==
    (Ranked /\ Ranking /\ r_cfg.only_trusted)
      => /\ \A i \in 1..Len(r_out) : domain_of(r_out[i].href) \in r_cfg.trusted
         /\ r_cfg.trusted = {} => r_out = <<>>

C22_Witness ==
    /\ Ranked /\ Ranking /\ r_cfg.only_trusted
    /\ r_out # <<>>
    /\ Len(r_out) < r_cfg.max_results
    /\ \E i \in 1..Len(r_in) :
          domain_of(r_in[i].href) \notin (r_cfg.trusted \union r_cfg.blacklist)

\* C23 as stated: no item whose domain is blacklisted is in the search output
\* of any provider, the crawler included, also when the domain is trusted.
C23_NoBlacklisted ==
    Ranked => \A i \in 1..Len(r_out) : domain_of(r_out[i].href) \notin r_cfg.blacklist

\* the part of C23 the four rankings meet
C23_RankingsExclude ==
    (Ranked /\ Ranking)
      => \A i \in 1..Len(r_out) : domain_of(r_out[i].href) \notin r_cfg.blacklist

\* positions of the input whose item is kept as trusted, and kept as other
TrustedAt(its, cfg) ==
    {i \in 1..Len(its) : domain_of(its[i].href) \in cfg.trusted \ cfg.blacklist}
OthersAt(its, cfg) ==
    {i \in 1..Len(its) : domain_of(its[i].href) \notin (cfg.trusted \union cfg.blacklist)}

\* the place the item at input position i has in trusted + others
PlaceOf(its, cfg, i) ==
    IF i \in TrustedAt(its, cfg)
    THEN Cardinality({j \in TrustedAt(its, cfg) : j <= i})
    ELSE Cardinality(TrustedAt(its, cfg)) + Cardinality({j \in OthersAt(its, cfg) : j <= i})

\* the positions of the input that make up trusted + others
KeptAt(its, cfg) ==
    TrustedAt(its, cfg) \union (IF cfg.only_trusted THEN {} ELSE OthersAt(its, cfg))

\* C24: the output of a ranking is the trusted items followed by the other
\* items (blacklisted items being excluded), each part in its original
\* relative order, cut to max_results; with only_trusted the other items are
\* dropped; the output never has more than max_results items.
C24_TrustedThenOthers ==
    (Ranked /\ Ranking)
      => /\ Len(r_out) <= r_cfg.max_results
         /\ Len(r_out) = Min(Cardinality(KeptAt(r_in, r_cfg)), r_cfg.max_results)
         /\ \A i \in KeptAt(r_in, r_cfg) :
               PlaceOf(r_in, r_cfg, i) <= Len(r_out)
                 => r_out[PlaceOf(r_in, r_cfg, i)] = r_in[i]

C24_Witness ==
    /\ rpc = "ranked" /\ Ranking /\ ~r_cfg.only_trusted
    /\ Len(r_in) = 3
    /\ TrustedAt(r_in, r_cfg) = {2}
    /\ OthersAt(r_in, r_cfg) = {1, 3}
    /\ r_out = <<r_in[2], r_in[1]>>

\* C25: ranking a ranked list once more, under the same configuration,
\* returns the same list in the same order, for every ranking.
C25_Idempotent ==
    (rpc = "reranked" /\ Ranking) => r_again = r_out

C25_Witness ==
    /\ rpc = "reranked" /\ Ranking
    /\ Len(r_out) = 2
    /\ TrustedAt(r_out, r_cfg) = {1}
    /\ OthersAt(r_out, r_cfg) = {2}
    /\ Len(r_in) > Len(r_out)
    /\ r_again = r_out

\* ------------------------------------------------------------------------
\* Recovery of JSON from model output
\* ------------------------------------------------------------------------
\* largest number of objects in an array of the model
MaxObjs == 2

\* Python's None
PyNone == [k |-> "none"]

\* the brace-balancing loop of _extract_json_array (lines 45-65), over the
\* characters of the snippet from position i on
RECURSIVE Salvage(_, _, _, _, _, _)
Salvage(snippet, i, depth, started, buf, objs) ==
    IF i > Len(snippet) THEN objs
    ELSE LET ch == snippet[i]
             depth1 == IF ch = "{" THEN depth + 1 ELSE depth
             started1 == started \/ ch = "{"
             buf1 == IF started1 THEN Append(buf, ch) ELSE buf
             depth2 == IF depth1 - 1 > 0 THEN depth1 - 1 ELSE 0
         IN  IF ch # "}" THEN Salvage(snippet, i + 1, depth1, started1, buf1, objs)
             ELSE IF depth2 = 0 /\ buf1 # <<>>
                  THEN LET r == json_loads(buf1) IN
                       Salvage(snippet, i + 1, depth2, FALSE, <<>>,
                               IF r.ok /\ r.v.k = "obj" THEN Append(objs, r.v) ELSE objs)
                  ELSE Salvage(snippet, i + 1, depth2, started1, buf1, objs)

\* llm_search_service._extract_json_array
_extract_json_array(text) ==
    IF text = <<>> THEN PyNone
    ELSE LET t == StripFenceClose(StripFenceOpen(Strip(text)))
             m == FirstIndex(t, "[")
             n == LastIndex(t, "]")
             snippet == IF m = 0 THEN <<>> ELSE SubSeq(t, m, IF n # 0 THEN n ELSE Len(t))
             first == IF m # 0 THEN json_loads(snippet) ELSE JFail
             objs == IF m # 0 /\ ~first.ok THEN Salvage(snippet, 1, 0, FALSE, <<>>, <<>>)
                     ELSE <<>>
             whole == json_loads(t)
         IN  IF first.ok /\ first.v.k = "arr" THEN first.v
             ELSE IF objs # <<>> THEN [k |-> "arr", e |-> objs]
             ELSE IF whole.ok /\ whole.v.k = "arr" THEN whole.v
             ELSE PyNone

\* JSON objects as a model writes them: flat, nested, holding a list, and
\* with a string value that holds a brace or a bracket
ObjPlain == <<"{", "\"a\"", ":", " ", "1", "}">>
ObjNested == <<"{", "\"summary\"", ":", "{", "\"a\"", ":", "0", "}", "}">>
ObjWithList == <<"{", "\"references\"", ":", "[", "1", "]", "}">>
ObjCloseInStr == <<"{", "\"a\"", ":", Quote, "}", Quote, "}">>
ObjOpenInStr == <<"{", "\"a\"", ":", Quote, "{", Quote, "}">>
ObjBracketInStr == <<"{", "\"a\"", ":", Quote, "]", Quote, "}">>

PlainObjs == {ObjPlain, ObjNested}
ObjPool == PlainObjs \union {ObjWithList, ObjCloseInStr, ObjOpenInStr, ObjBracketInStr}

\* the elements of a sequence of token sequences, separated by ", "
RECURSIVE JoinElems(_)
JoinElems(os) ==
    IF os = <<>> THEN <<>>
    ELSE IF Len(os) = 1 THEN os[1]
    ELSE os[1] \o <<",", " ">> \o JoinElems(Tail(os))

ObjLists(lo) == UNION { [1..n -> ObjPool] : n \in lo..MaxObjs }

ArrayOf(os) == <<"[">> \o JoinElems(os) \o <<"]">>

JsonArrays == { ArrayOf(os) : os \in ObjLists(0) } \union { <<"[", "1", ",", "0", "]">> }
JsonObjects == ObjPool \union { <<"{", "}">> }

\* explanatory text in front of and behind the fenced block
LeadProse == { <<>>, <<"w", "\n">>, <<"w", "[", "1", "]", "\n">>, <<"w", "{", "w", "}", "\n">> }
TrailProse == { <<>>, <<"\n", "w">>, <<"\n", "w", "[", "1", "]">>, <<"\n", "{", "w", "}">> }
FenceOpens == { <<FenceTok, "json", "\n">>, <<FenceTok, "\n">>, <<FenceTok, "json", "\r", "\n">> }
FenceCloses == { <<"\n", FenceTok>>, <<"\r", "\n", FenceTok>> }

\* the beginnings of an object that the output limit cut off
CutObjs == { <<>>, <<",", " ", "{", "\"a\"">>, <<",", " ", "{", "\"a\"", ":", " ">> }

Fenced(lead, open, body, close, trail) == lead \o open \o body \o close \o trail

\* the value json.loads gives each object of a list
ValuesOf(os) == [k |-> "arr", e |-> [i \in 1..Len(os) |-> json_loads(os[i]).v]]

\* inputs: a valid array or object in a code fence with prose around it, or
\* an array cut off before its closing bracket behind at least one object
JsonInit ==
    /\ jpc = "input"
    /\ j_out = PyNone
    /\ \/ \E lead \in LeadProse, trail \in TrailProse, open \in FenceOpens,
             close \in FenceCloses :
            \/ \E body \in JsonArrays :
                 /\ j_text = Fenced(lead, open, body, close, trail)
                 /\ j_orig = json_loads(body).v
                 /\ j_shape = [kind |-> "array", lead |-> lead, trail |-> trail, plain |-> FALSE]
            \/ \E body \in JsonObjects :
                 /\ j_text = Fenced(lead, open, body, close, trail)
                 /\ j_orig = json_loads(body).v
                 /\ j_shape = [kind |-> "object", lead |-> lead, trail |-> trail, plain |-> FALSE]
       \/ \E os \in ObjLists(1), cut \in CutObjs, open \in FenceOpens \union {<<>>} :
            /\ j_text = open \o <<"[">> \o JoinElems(os) \o cut
            /\ j_orig = ValuesOf(os)
            /\ j_shape = [kind |-> "truncated", lead |-> <<>>, trail |-> <<>>,
                          plain |-> \A i \in 1..Len(os) : os[i] \in PlainObjs]

\* LLMSearchService._call_chat_completions / _call_responses hand the model's
\* content to _extract_json_array
ExtractArray ==
    /\ jpc = "input"
    /\ j_shape.kind \in {"array", "truncated"}
    /\ j_out' = _extract_json_array(j_text)
    /\ jpc' = "extracted"
    /\ UNCHANGED <<j_text, j_orig, j_shape>>
    /\ UNCHANGED <<appv, crawlv, extv, fetchv, rankv, busv, clientv>>

\* report_service hands the model's answer to try_parse_json_object
ParseObject ==
    /\ jpc = "input"
    /\ j_shape.kind = "object"
    /\ j_out' = try_parse_json_object(j_text)
    /\ jpc' = "extracted"
    /\ UNCHANGED <<j_text, j_orig, j_shape>>
    /\ UNCHANGED <<appv, crawlv, extv, fetchv, rankv, busv, clientv>>

JsonNext == ExtractArray \/ ParseObject

SalvageInit ==
    /\ AppInit
    /\ env_expert = "unset"
    /\ suppress_file = MissingFile
    /\ CrawlerIdle
    /\ FetchIdle /\ RankIdle /\ BusIdle /\ ClientIdle /\ ExtIdle
    /\ JsonInit

SalvageSpec == SalvageInit /\ [][JsonNext]_vars

\* whether a piece of prose holds a bracket or a brace
HasBracket(t) == \E i \in 1..Len(t) : t[i] \in {"[", "]", "{", "}"}

\* C26 as stated: a valid JSON array or object in a code fence, with prose in
\* front of it and/or behind it, comes back from its extractor equal to the
\* original.
C26_RoundTrip ==
    (jpc = "extracted" /\ j_shape.kind \in {"array", "object"}
       /\ (j_shape.lead # <<>> \/ j_shape.trail # <<>>))
      => j_out = j_orig

\* the part of C26 the extractors meet: prose without brackets and braces
C26_PlainProseRoundTrip ==
    (jpc = "extracted" /\ j_shape.kind \in {"array", "object"}
       /\ ~HasBracket(j_shape.lead) /\ ~HasBracket(j_shape.trail))
      => j_out = j_orig

RECURSIVE IsSubSeq(_, _)
IsSubSeq(a, b) ==
    IF a = <<>> THEN TRUE
    ELSE IF b = <<>> THEN FALSE
    ELSE IF Head(a) = Head(b) THEN IsSubSeq(Tail(a), Tail(b))
    ELSE IsSubSeq(a, Tail(b))

\* C27 as stated: from an array cut off before its closing bracket,
\* _extract_json_array returns a list that holds every complete object, in
\* order, whatever the objects contain.
C27_CompleteObjectsRecovered ==
    (jpc = "extracted" /\ j_shape.kind = "truncated")
      => /\ j_out.k = "arr"
         /\ IsSubSeq(j_orig.e, j_out.e)

\* the part of C27 the salvage meets: objects without lists and without
\* braces or brackets inside strings
C27_PlainObjectsRecovered ==
    (jpc = "extracted" /\ j_shape.kind = "truncated" /\ j_shape.plain)
      => j_out = j_orig

\* ------------------------------------------------------------------------
\* Degradation signals of the response
\* ------------------------------------------------------------------------
Delivered == pc = "done" /\ topic # "" /\ response.status = 200

\* the low-fetch condition of analyze, lines 254-257, on the request's counts
LowFetch ==
    \/ got_text < LowFetchMinDocs
    \/ Len(items_readable) = 0
    \/ got_text * LowFetchDen < LowFetchNum * Len(items_readable)

\* C28 as stated: a delivered response tells which degradation occurred: the
\* empty search and the low fetch rate in its notice field, and the use of
\* the fallback report after a failed LLM call in its fallback field.
C28_DegradationSignalled ==
    Delivered
      => /\ search_empty => /\ response.notice = "empty search"
                            /\ response.fallback # ""
         /\ (~search_empty /\ LowFetch) => response.notice = "low fetch rate"
         /\ (exc_in # {} /\ content = FallbackReport) => response.fallback # ""

\* the part of C28 the handler meets: the notice names the empty search, or
\* else the low fetch rate, and the fallback field names the empty search
C28_SearchAndFetchSignalled ==
    Delivered
      => /\ search_empty => /\ response.notice = "empty search"
                            /\ response.fallback # ""
         /\ (~search_empty /\ LowFetch) => response.notice = "low fetch rate"
         /\ response.markdown = content

\* ------------------------------------------------------------------------
\* The log bus (utils/logger.py)
\* ------------------------------------------------------------------------
\* largest number of messages published in the model
MaxMsgs == 3

\* variant: the bus queue holds one message at most
QueueFullAtOne(q) == Len(q) >= 1

\* asyncio.Queue.full() for the queue built at line 8: asyncio.Queue() has
\* maxsize 0, and a queue with maxsize <= 0 is never full
QueueFull(q) == FALSE

\* LogBus.publish: await self.queue.put(message); put suspends the caller
\* only while the queue is full. mcp tells whether the text holds "[MCP]".
Publish ==
    /\ publisher = "idle"
    /\ Len(published) < MaxMsgs
    /\ \E mcp \in BOOLEAN :
         LET msg == [id |-> Len(published) + 1, mcp |-> mcp] IN
         /\ published' = Append(published, msg)
         /\ IF QueueFull(queue)
            THEN /\ publisher' = "blocked"
                 /\ UNCHANGED queue
            ELSE /\ queue' = Append(queue, msg)
                 /\ UNCHANGED publisher
    /\ UNCHANGED <<clients, received, b_running>>
    /\ UNCHANGED <<appv, crawlv, extv, fetchv, rankv, jsonv, clientv>>

\* LogBus.subscribe (app.py line 42, a websocket connects)
Subscribe(s) ==
    /\ s \notin clients
    /\ clients' = clients \union {s}
    /\ UNCHANGED <<queue, published, received, b_running, publisher>>
    /\ UNCHANGED <<appv, crawlv, extv, fetchv, rankv, jsonv, clientv>>

\* LogBus.unsubscribe (app.py line 49, the websocket is gone)
Unsubscribe(s) ==
    /\ s \in clients
    /\ clients' = clients \ {s}
    /\ UNCHANGED <<queue, published, received, b_running, publisher>>
    /\ UNCHANGED <<appv, crawlv, extv, fetchv, rankv, jsonv, clientv>>

\* app.py line 36: asyncio.create_task(log_bus.broadcaster()) at startup
StartBroadcaster ==
    /\ ~b_running
    /\ b_running' = TRUE
    /\ UNCHANGED <<queue, clients, published, received, publisher>>
    /\ UNCHANGED <<appv, crawlv, extv, fetchv, rankv, jsonv, clientv>>

\* one round of LogBus.broadcaster: take the oldest message; skip it when it
\* is an MCP message and the environment hides those; else put it on the
\* queue of every client (those queues are unbounded too: no put suspends)
Broadcast ==
    /\ b_running
    /\ queue # <<>>
    /\ queue' = Tail(queue)
    /\ \E hide_mcp \in BOOLEAN :
         IF hide_mcp /\ Head(queue).mcp
         THEN UNCHANGED received
         ELSE received' = [s \in Subscribers |->
                             IF s \in clients THEN Append(received[s], Head(queue))
                             ELSE received[s]]
    /\ UNCHANGED <<clients, published, b_running, publisher>>
    /\ UNCHANGED <<appv, crawlv, extv, fetchv, rankv, jsonv, clientv>>

LogNext ==
    \/ Publish
    \/ \E s \in Subscribers : Subscribe(s)
    \/ \E s \in Subscribers : Unsubscribe(s)
    \/ StartBroadcaster
    \/ Broadcast

LogSpec == Init /\ [][LogNext]_vars

\* C29: publish never leaves its caller waiting and never fails, with or
\* without subscribers and broadcaster: every message handed to publish is
\* on the bus queue until the broadcaster takes it, oldest first; and what a
\* subscriber receives is in publish order, each message at most once.
C29_PublishNeverBlocks ==
    /\ publisher = "idle"
    /\ Len(queue) <= Len(published)
    /\ queue = SubSeq(published, Len(published) - Len(queue) + 1, Len(published))
    /\ ~b_running => queue = published
    /\ \A s \in Subscribers :
         /\ IsSubSeq(received[s], published)
         /\ \A i, j \in 1..Len(received[s]) :
               i < j => received[s][i].id < received[s][j].id

C29_Witness ==
    /\ clients = {}
    /\ Len(published) = MaxMsgs
    /\ Len(queue) = 1
    /\ Len(received["ws1"]) = 2
    /\ received["ws2"] = <<published[2]>>

\* ------------------------------------------------------------------------
\* DoubaoClient.complete: the attempts of one call
\* ------------------------------------------------------------------------
\* what can end an attempt with an exception: the read timeout (caught at
\* line 72); a connection error or the HTTPStatusError that
\* raise_for_status raises for a 4xx/5xx answer, both httpx.HTTPError
\* (line 75); the ValueError of resp.json() on a body that is not JSON
\* (line 79)
ClientErrors == {"ReadTimeout", "ConnectError", "HTTPStatusError", "ValueError"}

\* the errors the retry policy names: timeout and connection error
Transient == {"ReadTimeout", "ConnectError"}

\* asyncio.sleep(1 * (2 ** attempt)), in seconds
Backoff(a) == 2 ^ a

\* complete is called: the client is opened, last_exc = None, attempt 0 posts
ClientCall ==
    /\ c_pc = "idle"
    /\ c_pc' = "request"
    /\ c_attempt' = 0
    /\ c_last_exc' = "None"
    /\ UNCHANGED <<c_errors, c_slept>>
    /\ UNCHANGED <<appv, crawlv, extv, fetchv, rankv, jsonv, busv>>

\* lines 69-71: the answer arrives, has a 2xx status and parses
ClientReturns ==
    /\ c_pc = "request"
    /\ c_pc' = "returned"
    /\ UNCHANGED <<c_attempt, c_last_exc, c_errors, c_slept>>
    /\ UNCHANGED <<appv, crawlv, extv, fetchv, rankv, jsonv, busv>>

\* lines 72-81: the attempt ends in an exception; each of the three except
\* clauses stores it in last_exc and falls through to the sleep
ClientFails ==
    /\ c_pc = "request"
    /\ \E e \in ClientErrors :
         /\ c_last_exc' = e
         /\ c_errors' = Append(c_errors, e)
    /\ c_pc' = "sleep"
    /\ UNCHANGED <<c_attempt, c_slept>>
    /\ UNCHANGED <<appv, crawlv, extv, fetchv, rankv, jsonv, busv>>

\* lines 82-84: the sleep after the failed attempt ends; the loop goes on to
\* the next attempt, or, after the last one, last_exc is raised
ClientSleeps ==
    /\ c_pc = "sleep"
    /\ c_slept' = Append(c_slept, Backoff(c_attempt))
    /\ IF NextAttempt(c_attempt) < MaxAttempts
       THEN /\ c_attempt' = NextAttempt(c_attempt)
            /\ c_pc' = "request"
       ELSE /\ c_pc' = "raised"
            /\ UNCHANGED c_attempt
    /\ UNCHANGED <<c_last_exc, c_errors>>
    /\ UNCHANGED <<appv, crawlv, extv, fetchv, rankv, jsonv, busv>>

\* the caller takes the result or the exception; the next call may start
ClientDone ==
    /\ c_pc \in {"returned", "raised"}
    /\ c_pc' = "idle"
    /\ c_attempt' = 0
    /\ c_last_exc' = "None"
    /\ c_errors' = <<>>
    /\ c_slept' = <<>>
    /\ UNCHANGED <<appv, crawlv, extv, fetchv, rankv, jsonv, busv>>

ClientNext == ClientCall \/ ClientReturns \/ ClientFails \/ ClientSleeps \/ ClientDone

ClientSpec == Init /\ [][ClientNext]_vars

\* the number of attempts made so far in the call
Attempts == IF c_pc = "idle" THEN 0 ELSE c_attempt + 1

\* C30 as stated: a call makes at most 3 attempts; an attempt is followed by
\* another one only if it failed with a transient network error; after the
\* failed attempt number a (from 0) the client waits 2^a seconds; when the
\* attempts are used up the last exception is raised.
C30_RetryPolicy ==
    /\ Attempts <= MaxAttempts
    /\ \A i \in 1..Len(c_errors) : i < Attempts => c_errors[i] \in Transient
    /\ \A i \in 1..Len(c_slept) : c_slept[i] = 2 ^ (i - 1)
    /\ c_pc = "raised" => /\ Len(c_errors) = MaxAttempts
                          /\ c_last_exc = c_errors[MaxAttempts]

\* the part of C30 the client meets: at most 3 attempts, the waits 1, 2 and
\* 4 seconds after the failed attempts 0, 1 and 2, and the last exception
\* raised after the third failure
C30_AttemptsAndBackoff ==
    /\ Attempts <= MaxAttempts
    /\ Len(c_slept) <= Len(c_errors)
    /\ c_pc \in {"request", "returned"} => Len(c_slept) = Len(c_errors)
    /\ \A i \in 1..Len(c_slept) : c_slept[i] = 2 ^ (i - 1)
    /\ c_pc = "raised" => /\ Len(c_errors) = MaxAttempts
                          /\ c_slept = <<1, 2, 4>>
                          /\ c_last_exc = c_errors[MaxAttempts]

\* C31 as stated: an attempt that ended in an HTTP error status is the only
\* attempt of the call; the client makes no attempt and takes no wait after
\* it, and hands that error to the caller.
C31_StatusErrorNotRetried ==
    \A i \in 1..Len(c_errors) :
        c_errors[i] = "HTTPStatusError" =>
            /\ i = 1
            /\ Attempts = 1
            /\ c_slept = <<>>
            /\ c_pc \in {"sleep", "raised"}

\* what the client does with an error status: it is stored and, like every
\* other failure, followed by the wait of its attempt
C31_StatusErrorStoredAndWaited ==
    \A i \in 1..Len(c_errors) :
        c_errors[i] = "HTTPStatusError" =>
            /\ i <= MaxAttempts
            /\ (i = Len(c_errors) => c_last_exc = "HTTPStatusError")
            /\ (i < Len(c_errors) => c_slept[i] = Backoff(i - 1))

\* ------------------------------------------------------------------------
\* LLMSearchService.search (llm_search_service.py lines 143-357): the
\* chat/completions endpoint, then the responses endpoint
\* ------------------------------------------------------------------------
\* URLs as the model writes them, and urlparse(u).netloc of each
UrlToks == {"http://news.cn/1", "http://a.com/2"}

UrlHost(u) ==
    CASE u = "http://news.cn/1" -> "news.cn"
      [] u = "http://a.com/2" -> "a.com"
      [] OTHER -> ""

\* the item built for a URL: href and the domain that domain_of gives it
LlmItem(u) == ItemAt(UrlHost(u), u)

\* re.findall of the URL pattern over the content, then
\* list(dict.fromkeys(urls)): every URL once, in order of first appearance
RECURSIVE FindUrls(_, _)
FindUrls(text, acc) ==
    IF text = <<>> THEN acc
    ELSE LET u == Head(text) IN
         FindUrls(Tail(text),
                  IF u \in UrlToks /\ ~(\E i \in 1..Len(acc) : acc[i] = u)
                  THEN Append(acc, u) ELSE acc)

\* the string a parsed JSON value holds, "" for anything that is no string
StrOf(v) == IF v.k = "qstr" /\ Len(v.c) = 1 THEN v.c[1] ELSE ""

\* it.get('url') or it.get('href') or ''
UrlOf(obj) ==
    LET v == DictGet(obj, "\"url\"")
        w == DictGet(obj, "\"href\"")
    IN  IF Truthy(v) THEN StrOf(v) ELSE IF Truthy(w) THEN StrOf(w) ELSE ""

\* the loop over arr: elements that are no dict are skipped
RECURSIVE ItemsOfArray(_)
ItemsOfArray(es) ==
    IF es = <<>> THEN <<>>
    ELSE IF Head(es).k = "obj" THEN <<LlmItem(UrlOf(Head(es)))>> \o ItemsOfArray(Tail(es))
    ELSE ItemsOfArray(Tail(es))

ItemsOfUrls(us) == [i \in 1..Len(us) |-> LlmItem(us[i])]

\* the result of an endpoint call: None, or the ranked items; steps is the
\* history of what the call tried
EndpointNone(steps) == [none |-> TRUE, items |-> <<>>, steps |-> steps]
EndpointItems(its, cfg, steps) ==
    [none |-> FALSE, items |-> _rank_results(its, cfg), steps |-> steps]

\* lines 233-245: the items of the URLs found in the text; None without any
ItemsFromUrls(its, cfg, steps) ==
    IF its = <<>> THEN EndpointNone(steps) ELSE EndpointItems(its, cfg, steps)

\* lines 223-257: arr is what _extract_json_array recovered from the content
ChatFromArray(ans, cfg, arr) ==
    IF ~Truthy(arr)
    THEN ItemsFromUrls(ItemsOfUrls(Truncate(FindUrls(ans.content, <<>>), cfg.max_results)),
                       cfg, <<"chat", "chat_json", "chat_urls">>)
    ELSE EndpointItems(ItemsOfArray(arr.e), cfg, <<"chat", "chat_json">>)

\* _call_chat_completions, lines 196-257: None for an endpoint that failed
\* (no answer after the retries, status >= 400, an exception); otherwise the
\* JSON array of the content, and when none is recovered the URLs of its text
_call_chat_completions(ans, cfg) ==
    IF ~ans.ok THEN EndpointNone(<<"chat">>)
    ELSE ChatFromArray(ans, cfg, _extract_json_array(ans.content))

\* lines 323-338: arr is what _extract_json_array recovered from the content
ResponsesFromArray(cfg, arr) ==
    IF ~Truthy(arr) THEN EndpointNone(<<"responses", "responses_json">>)
    ELSE EndpointItems(ItemsOfArray(arr.e), cfg, <<"responses", "responses_json">>)

\* _call_responses, lines 302-338: None for an endpoint that failed or whose
\* content holds no JSON array
_call_responses(ans, cfg) ==
    IF ~ans.ok THEN EndpointNone(<<"responses">>)
    ELSE ResponsesFromArray(cfg, _extract_json_array(ans.content))

UrlObj(u) == <<"{", "\"url\"", ":", " ", Quote, u, Quote, "}">>

\* what an endpoint's content can be: nothing, an array of one or two
\* results (bare or fenced with prose), prose with or without URLs, an empty
\* array, an array of an object without url, an array of numbers
LlmContents ==
    { <<>>,
      ArrayOf(<<UrlObj("http://news.cn/1")>>),
      ArrayOf(<<UrlObj("http://a.com/2"), UrlObj("http://news.cn/1")>>),
      <<"w", "\n", FenceTok, "json", "\n">> \o ArrayOf(<<UrlObj("http://a.com/2")>>)
          \o <<"\n", FenceTok>>,
      <<"w", " ", "http://a.com/2", " ", "http://a.com/2", " ", "http://news.cn/1">>,
      <<"w">>,
      <<"[", "]">>,
      ArrayOf(<<ObjPlain>>),
      <<"[", "1", ",", "0", "]">> }

EndpointFailed == [ok |-> FALSE, content |-> <<>>]
EndpointAnswers == {EndpointFailed} \union { [ok |-> TRUE, content |-> c] : c \in LlmContents }

LlmConfigs ==
    [trusted : {{}, {"news.cn"}}, blacklist : {{}, {"a.com"}}, only_trusted : BOOLEAN,
     max_results : {1, 2}]

\* search is called on a service built with some ranking settings
LlmSearch ==
    /\ l_pc = "idle"
    /\ l_pc' = "chat"
    /\ l_cfg' \in LlmConfigs
    /\ UNCHANGED <<l_chat, l_resp, l_steps, l_items>>
    /\ UNCHANGED <<appv, crawlv, fetchv, rankv, jsonv, busv, clientv, proxyv>>

\* search, lines 346-349: the chat endpoint answered ans and the call gave
\* r; its items are returned when there are any
AfterChat(ans, r) ==
    /\ l_chat' = ans
    /\ l_steps' = l_steps \o r.steps
    /\ IF r.items # <<>>
       THEN l_pc' = "done" /\ l_items' = r.items
       ELSE l_pc' = "responses" /\ UNCHANGED l_items

ChatCompletions ==
    /\ l_pc = "chat"
    /\ \E ans \in EndpointAnswers : AfterChat(ans, _call_chat_completions(ans, l_cfg))
    /\ UNCHANGED <<l_cfg, l_resp>>
    /\ UNCHANGED <<appv, crawlv, fetchv, rankv, jsonv, busv, clientv, proxyv>>

\* search, lines 351-357: the responses endpoint answered ans and the call
\* gave r; its items, or []
AfterResponses(ans, r) ==
    /\ l_resp' = ans
    /\ l_steps' = l_steps \o r.steps
    /\ l_items' = r.items

Responses ==
    /\ l_pc = "responses"
    /\ \E ans \in EndpointAnswers : AfterResponses(ans, _call_responses(ans, l_cfg))
    /\ l_pc' = "done"
    /\ UNCHANGED <<l_cfg, l_chat>>
    /\ UNCHANGED <<appv, crawlv, fetchv, rankv, jsonv, busv, clientv, proxyv>>

\* the caller takes the items; the next search may start
LlmSearchReturn ==
    /\ l_pc = "done"
    /\ l_pc' = "idle"
    /\ l_cfg' = [trusted |-> {}, blacklist |-> {}, only_trusted |-> FALSE, max_results |-> 1]
    /\ l_chat' = EndpointFailed
    /\ l_resp' = EndpointFailed
    /\ l_steps' = <<>>
    /\ l_items' = <<>>
    /\ UNCHANGED <<appv, crawlv, fetchv, rankv, jsonv, busv, clientv, proxyv>>

LlmSearchNext == LlmSearch \/ ChatCompletions \/ Responses \/ LlmSearchReturn

LlmSearchSpec == Init /\ [][LlmSearchNext]_vars

\* index of the first occurrence of step s in the history, 0 when absent
StepAt(s) == FirstIndex(l_steps, s)

\* the chat endpoint answered and no JSON array was recovered from its content
ChatParseFailed == l_chat.ok /\ ~Truthy(_extract_json_array(l_chat.content))

\* C32 as stated: the JSON array of the primary endpoint is tried first; when
\* its parse fails the secondary endpoint is called; URLs are extracted from
\* free text only after both endpoints were tried, as the last step before
\* zero results.
C32_PrimarySecondaryThenUrls ==
    /\ l_steps # <<>> => StepAt("chat_json") \in {0, 2}
    /\ (l_pc = "done" /\ ChatParseFailed) => StepAt("responses") # 0
    /\ StepAt("chat_urls") # 0 =>
          /\ StepAt("responses") # 0
          /\ StepAt("responses") < StepAt("chat_urls")

\* the order the service follows: the chat endpoint's array, then the URLs
\* of the chat endpoint's own text, then the responses endpoint's array;
\* URLs of the chat text that pass the ranking end the search before the
\* responses endpoint is called, and the text of the responses endpoint is
\* never searched for URLs
C32_UrlsBeforeSecondary ==
    /\ \E n \in 0..5 :
         l_steps = SubSeq(<<"chat", "chat_json", "chat_urls", "responses", "responses_json">>
                          , 1, n)
         \/ l_steps = <<"chat", "responses">>
         \/ l_steps = <<"chat", "responses", "responses_json">>
         \/ l_steps = <<"chat", "chat_json", "responses">>
         \/ l_steps = <<"chat", "chat_json", "responses", "responses_json">>
    /\ (StepAt("chat_urls") # 0 /\ _call_chat_completions(l_chat, l_cfg).items # <<>>) =>
          /\ StepAt("responses") = 0
          /\ l_pc = "done"
          /\ l_items = _rank_results(ItemsOfUrls(Truncate(FindUrls(l_chat.content, <<>>),
                                                          l_cfg.max_results)), l_cfg)
    /\ (l_pc = "done" /\ StepAt("responses") # 0 /\ l_items # <<>>) =>
          l_items = _rank_results(ItemsOfArray(_extract_json_array(l_resp.content).e), l_cfg)

\* ------------------------------------------------------------------------
\* The proxy probe of the HTTP clients: DoubaoClient.complete
\* (llm_doubao.py lines 22-65), CrawlerService._client (crawler_service.py
\* lines 71-100) and the endpoints of LLMSearchService (lines 110-190)
\* ------------------------------------------------------------------------
ProbingClients == {"doubao", "crawler", "llm_search"}

\* HTTP_PROXY: not set, or a proxy address
ProxySettings == {"", "http://127.0.0.1:7890", "https://proxy.local"}

\* socket.create_connection((host, port), timeout=0.8) connects, or raises:
\* refused, timed out, host not resolved
ProbeOutcomes == {"connected", "refused", "timeout", "gaierror"}

\* variant: the proxy is attached whenever one is configured
ProxiesIfConfigured(http_proxy, probe) ==
    IF http_proxy = "" THEN "None" ELSE http_proxy

\* _proxies_if_reachable: None without a proxy setting and when the probe
\* raised; the proxy for every scheme when the probe connected
_proxies_if_reachable(http_proxy, probe) ==
    IF http_proxy = "" THEN "None"
    ELSE IF probe = "connected" THEN http_proxy
    ELSE "None"

\* client_kwargs: trust_env is False in all three clients; proxies is set
\* only when _proxies_if_reachable returned a dict
ClientKwargs(proxies) == [trust_env |-> FALSE, proxies |-> proxies]

\* httpx.AsyncClient: a request goes through kwargs' proxies when given,
\* through the proxy of the environment when trust_env is on, else directly
Route(kwargs, env_proxy) ==
    IF kwargs.proxies # "None" THEN "proxy"
    ELSE IF kwargs.trust_env /\ env_proxy # "" THEN "proxy"
    ELSE "direct"

\* the client is built: the proxy setting is probed and the kwargs are set
BuildClient ==
    /\ x_pc = "idle"
    /\ x_pc' = "built"
    /\ x_client' \in ProbingClients
    /\ \E hp \in ProxySettings :
         \E probe \in (IF hp = "" THEN {"None"} ELSE ProbeOutcomes) :
            /\ x_http_proxy' = hp
            /\ x_probe' = probe
            /\ x_kwargs' = ClientKwargs(_proxies_if_reachable(hp, probe))
    /\ UNCHANGED <<x_route, x_result>>
    /\ UNCHANGED <<appv, crawlv, fetchv, rankv, jsonv, busv, clientv, llmsv>>

\* the request is sent: it fails on the proxy only when it is routed through
\* a proxy that does not answer at that time
SendRequest ==
    /\ x_pc = "built"
    /\ x_pc' = "done"
    /\ LET route == Route(x_kwargs, x_http_proxy) IN
       /\ x_route' = route
       /\ \E proxy_up \in BOOLEAN, target_up \in BOOLEAN :
            x_result' = IF route = "proxy" /\ ~proxy_up THEN "ProxyError"
                        ELSE IF target_up THEN "ok" ELSE "ConnectError"
    /\ UNCHANGED <<x_client, x_http_proxy, x_probe, x_kwargs>>
    /\ UNCHANGED <<appv, crawlv, fetchv, rankv, jsonv, busv, clientv, llmsv>>

\* the client is closed
CloseClient ==
    /\ x_pc = "done"
    /\ x_pc' = "idle"
    /\ x_client' = "None"
    /\ x_http_proxy' = ""
    /\ x_probe' = "None"
    /\ x_kwargs' = [trust_env |-> FALSE, proxies |-> "None"]
    /\ x_route' = "None"
    /\ x_result' = "None"
    /\ UNCHANGED <<appv, crawlv, fetchv, rankv, jsonv, busv, clientv, llmsv>>

ProxyNext == BuildClient \/ SendRequest \/ CloseClient

ProxySpec == Init /\ [][ProxyNext]_vars

C34_MarkdownNonEmpty ==
    /\ pc = "deliver" => content # <<>>
    /\ Delivered => response.markdown # <<>>

\* the part of C34 the handler meets: the report is empty only when stage 2
\* of expert mode answered with empty content; the classic path and every
\* fallback deliver a non-empty report
C34_EmptyOnlyFromStage2 ==
    (pc = "deliver" /\ content = <<>>) =>
        /\ llm_calls = <<"stage1", "stage2">>
        /\ llm_answer = <<>>
        /\ exc_in = {}

\* the process is started with expert mode configured on (EXPERT_MODE unset
\* or "true"); the requests are those of Spec
ExpertOnInit == Init /\ ExpertEnabled(env_expert)

ExpertOnSpec == ExpertOnInit /\ [][Next]_vars

\* the request's gather returned and synthesis began
SynthesisBegun == pc \in {"stage1", "stage2", "classic", "deliver", "done"} /\ synth_trace # <<>>

\* C35 as stated: with expert mode configured on, a request whose gather
\* extracted some text starts synthesis in expert stage 1, whatever the
\* requests before it extracted.
C35_ModeFromConfigAndEvidence ==
    (SynthesisBegun /\ got_text > 0) => SubSeq(synth_trace, 1, 2) = <<"INIT", "EXPERT_STAGE1">>

\* what decides the mode: the process-wide EXPERT_MODE as the requests so
\* far left it, and the request's own text count; a request without text
\* writes "false" to it and no request writes it back
C35_ModeFromProcessEnv ==
    /\ SynthesisBegun =>
          (SubSeq(synth_trace, 1, 2) = <<"INIT", "EXPERT_STAGE1">>
             <=> (ExpertEnabled(env_expert) /\ got_text > 0))
    /\ (SynthesisBegun /\ got_text = 0) => env_expert = "false"

\* C39: during the synthesis of one request complete is called at most twice:
\* stage 1, then either stage 2 or the classic call, never both; stage 2 is
\* called only after stage 1 answered an object with non-empty references.
C39_AtMostTwoCompleteCalls ==
    /\ Len(llm_calls) <= 2
    /\ llm_calls \in {<<>>, <<"classic">>, <<"stage1">>,
                      <<"stage1", "stage2">>, <<"stage1", "classic">>}
    /\ ~(HasCall("stage2") /\ HasCall("classic"))
    /\ HasCall("stage2") => (Stage1Parsed /\ "stage1" \notin exc_in)
    /\ HasCall("stage1") => llm_calls[1] = "stage1"

C39_Witness ==
    /\ pc = "done"
    /\ llm_calls = <<"stage1", "stage2">>
    /\ Stage1Parsed
    /\ response.status = 200

\* C40: the secondary provider's search is invoked at most once in a request
\* and only after the primary's search returned an empty list; when the
\* primary returned at least one item the secondary is never invoked, the
\* primary stays the active provider and its items are the request's items.
C40_SecondaryAtMostOnce ==
    (pc # "idle" /\ topic # "") =>
        /\ search_calls # <<>> /\ search_calls[1] = provider
        /\ Len(search_calls) <= 2
        /\ Len(search_returns) <= Len(search_calls)
        /\ Len(search_calls) = 2 =>
              /\ search_calls[2] = ddgs_fallback
              /\ search_returns[1] = [by |-> provider, n |-> 0]
              /\ provider \notin search_raised
        /\ (search_returns # <<>> /\ search_returns[1].n >= 1) =>
              /\ search_calls = <<provider>>
              /\ search_returns = <<[by |-> provider, n |-> search_returns[1].n]>>
              /\ ss = provider
              /\ items = SearchResult(provider, search_returns[1].n)
              /\ gather_on \in {"None", provider}

C40_Witness ==
    /\ pc = "done"
    /\ provider = "llm"
    /\ ddgs_fallback = "ddgs"
    /\ search_calls = <<"llm">>
    /\ search_returns = <<[by |-> "llm", n |-> 1]>>
    /\ gather_on = "llm"

\* ------------------------------------------------------------------------
\* C36: two overlapping crawler requests (OverlapSpec)
\* ------------------------------------------------------------------------
\* C36 as stated: once this request has returned and the request that
\* overlapped it has ended, the suppression file holds every failure this
\* request recorded: a domain whose crawl it recorded as failed has a record
\* in the file with at least the count of the request's own store.
C36_NoLostUpdates ==
    (cpc = "returned" /\ ~other_suppress.live /\ ~unsaved) =>
        \A d \in Domains :
            recorded[d] = <<"failure">> =>
                /\ _load_suppress(suppress_file)[d].present
                /\ _load_suppress(suppress_file)[d].count >= suppress[d].count

\* ------------------------------------------------------------------------
\* C37, C38: the suppression store over several requests (CrawlerSpec)
\* ------------------------------------------------------------------------
\* a record as _record_failure leaves it: a count of at least 1, and
\* suppress_until set exactly from the threshold on
WellFormedRecord(rec) ==
    IF rec.present
    THEN /\ rec.count >= 1
         /\ rec.suppress_until # 0 <=> rec.count >= SuppressThreshold
    ELSE rec = NoRecord

\* C37: starting from an empty store, every record of the store has a
\* failure count of at least 1 and a non-zero suppress_until exactly when its
\* count has reached the threshold; no record has count 0. The same holds
\* for the records of the suppression file.
C37_StoreInvariant ==
    \A d \in Domains :
        /\ WellFormedRecord(suppress[d])
        /\ WellFormedRecord(_load_suppress(suppress_file)[d])

C37_Witness ==
    /\ suppress[Trusted[1]] = [present |-> TRUE, count |-> SuppressThreshold,
                               suppress_until |-> SuppressTTL]
    /\ suppress[Trusted[2]] = [present |-> TRUE, count |-> 1, suppress_until |-> 0]
    /\ _load_suppress(suppress_file) = suppress

\* the largest failure count a record reaches
MaxFailures == 4

\* one search call that reaches _search_one_domain for domain d, on a clock
\* that advances between the calls (lines 184-259), seen from the store: the
\* entry check, then the outcome of the crawl
Visit(d, outcome) ==
    /\ d \notin blacklist
    /\ entry' = [entry EXCEPT ![d] = [t |-> now, rec |-> suppress[d], read |-> TRUE]]
    /\ IF IsSuppressed(suppress[d], now)
       THEN /\ outcome = "skipped"
            /\ recorded' = [recorded EXCEPT ![d] = <<>>]
            /\ UNCHANGED <<suppress, suppress_file, unsaved>>
       ELSE /\ outcome \in {"failure", "success"}
            /\ outcome = "failure" => suppress[d].count < MaxFailures
            /\ recorded' = [recorded EXCEPT ![d] = <<outcome>>]
            /\ suppress' = IF outcome = "failure" THEN _record_failure(suppress, d, now)
                           ELSE _record_success(suppress, d)
            /\ IF outcome = "failure" \/ suppress[d].present
               THEN \E o \in SaveOutcomes(suppress_file, suppress') :
                       /\ suppress_file' = o.file
                       /\ unsaved' = o.failed
               ELSE UNCHANGED <<suppress_file, unsaved>>
    /\ UNCHANGED <<appv, libv, now, ticks, other_suppress, cpc, blacklist, max_total_limit,
                   task, found, results>>

VisitFails(d) == Visit(d, "failure")
VisitSucceeds(d) == Visit(d, "success")
VisitSkipped(d) == Visit(d, "skipped")

ExpiryNext ==
    \/ \E d \in Domains : VisitFails(d)
    \/ \E d \in Domains : VisitSucceeds(d)
    \/ \E d \in Domains : VisitSkipped(d)
    \/ Tick

\* one store that lives on while the clock advances past suppress_until
ExpiryInit == Init /\ env_expert = "unset"

ExpirySpec == ExpiryInit /\ [][ExpiryNext]_vars

\* the step is a call for d that recorded a failure
FailureVisit(d) == entry'[d] # entry[d] /\ recorded'[d] = <<"failure">>

\* the record of d is at or past the threshold and its suppression has run out
Expired(d) ==
    /\ suppress[d].count >= SuppressThreshold
    /\ suppress[d].suppress_until # 0
    /\ ~IsSuppressed(suppress[d], now)

\* C38: the passing of suppress_until leaves the failure count as it was,
\* and one more recorded failure of a domain whose suppression ran out
\* without a success adds 1 to that count and suppresses the domain again
\* from the time of that failure until a full TTL later.
C38_ExpiryKeepsCount ==
    [][\A d \in Domains :
         /\ (now' # now) => suppress'[d] = suppress[d]
         /\ (Expired(d) /\ FailureVisit(d)) =>
               /\ suppress'[d].count = suppress[d].count + 1
               /\ suppress'[d].suppress_until = now + SuppressTTL
               /\ IsSuppressed(suppress'[d], now)
               /\ IsSuppressed(suppress'[d], now + SuppressTTL - 1)
               /\ ~IsSuppressed(suppress'[d], now + SuppressTTL)]_vars

C38_Witness ==
    /\ now = SuppressTTL
    /\ entry[Trusted[1]] = [t |-> SuppressTTL,
                            rec |-> [present |-> TRUE, count |-> SuppressThreshold,
                                     suppress_until |-> SuppressTTL],
                            read |-> TRUE]
    /\ recorded[Trusted[1]] = <<"failure">>
    /\ suppress[Trusted[1]] = [present |-> TRUE, count |-> SuppressThreshold + 1,
                               suppress_until |-> SuppressTTL + SuppressTTL]

====
